---- MODULE Spec2Model ----
(***************************************************************************)
(* Model of the dataset preparation and batching pipeline of libs-pewpew   *)
(* (src/src/utils.py): the batch generator __data_generator, the label     *)
(* remapping get_transformation_dict / transform_labels, prepare_dataset   *)
(* and prepare_mixture_dataset.                                            *)
(*                                                                         *)
(* A file is represented by its 1-based position in the list handed to the *)
(* generator (glob returns distinct paths), a batch by the sequence of the *)
(* files that fill its rows; 0 marks a row still holding np.zeros.         *)
(***************************************************************************)
EXTENDS Integers, Sequences, FiniteSets, TLC

VARIABLES
    \* __data_generator: parameters, locals and the position of the generator
    file_list,          \* the list the caller passed as `files`
    batch_size,
    shuffle_and_repeat,
    files,              \* the generator's local `files` (rebound by shuffle)
    i,
    run,
    gen_state,          \* "created" | "suspended" | "closed"
    outcome,            \* what the last request returned or raised
    batches,            \* the batches yielded so far, in yield order
    requests,           \* number of next() calls made so far
    \* get_transformation_dict / transform_labels
    labels,
    dict_or_np,
    trans_dict,
    label_data,
    transformed,
    \* prepare_dataset
    train_labels,
    test_labels,
    dataset,
    \* prepare_mixture_dataset
    train_labels_hh,
    train_labels_syn,
    mixture_pct,
    mixture,
    \* np.load inside __data_generator: the files that cannot be read
    bad_files,
    \* get_64shot_transition_matrix
    test_filepaths,
    transition_matrix,
    \* compute_accuracy_heatmaps
    target_preds,
    acc_heatmap,
    \* __get_labels
    name_fields,        \* the fields the file names were built from
    layout,             \* the naming convention they were built with
    targets,
    extracted,
    \* set_classification_targets and the calls of prepare_dataset and
    \* prepare_mixture_dataset
    cls_choice,
    chosen,
    dataset_choice,
    target,
    dataset_configs,    \* the keys of config/datasets.yaml
    train_data,
    test_data,
    synth_data,         \* the files of the synthetic training split
    prepared,
    \* normalise_minmax, normalise_snv, no_normalisation
    sample,
    normalisation,
    normalised,
    \* baseline_als_optimized
    spectrum,           \* the argument y
    corrected,
    \* the generators of one descriptor and the lists they were given
    heap,
    gens,
    \* the contents of the files a generator loads, and its categorical flag
    file_labels,
    file_samples,
    categorical

genVars == <<file_list, batch_size, shuffle_and_repeat, files, i, run,
             gen_state, outcome, batches, requests, bad_files>>
labelVars == <<labels, dict_or_np, trans_dict, label_data, transformed>>
prepVars == <<train_labels, test_labels, dataset>>
mixVars == <<train_labels_hh, train_labels_syn, mixture_pct, mixture>>
gridVars == <<test_filepaths, transition_matrix, target_preds, acc_heatmap>>
nameVars == <<name_fields, layout, targets, extracted>>
callVars == <<cls_choice, chosen, dataset_choice, target, dataset_configs,
              train_data, test_data, synth_data, prepared>>
normVars == <<sample, normalisation, normalised, spectrum, corrected>>
pairVars == <<heap, gens>>
rowVars == <<file_labels, file_samples, categorical>>
moreVars == <<gridVars, nameVars, callVars, normVars, pairVars, rowVars>>
vars == <<genVars, labelVars, prepVars, mixVars, moreVars>>

(***************************************************************************)
(* Bounds of the model.                                                    *)
(***************************************************************************)
MaxFiles == 10          \* files of a single-pass generator
MaxShuffled == 3        \* files of a repeating generator
MaxBatch == 5           \* batch sizes 1..MaxBatch
MaxRows == 10           \* rows a repeating generator is asked for
MaxRequests == 13       \* next() calls on one generator
MaxLabelId == 2         \* label IDs 0..MaxLabelId
MaxLabels == 3          \* length of a list of training labels
MaxQuery == 2           \* length of a list of labels to transform or test
MaxMixLabelId == 1      \* label IDs 0..MaxMixLabelId of the two mixed sources
MaxMixLabels == 2       \* training files of each of the two mixed sources
MaxMixTest == 1         \* handheld test files of a mixture
MaxPctSteps == 4        \* mixture_pct is 0/PctUnit .. MaxPctSteps/PctUnit
PctUnit == 4

(***************************************************************************)
(* Helpers on sequences.                                                   *)
(***************************************************************************)
Min(a, b) == IF a <= b THEN a ELSE b

Range(s) == {s[k] : k \in 1..Len(s)}

RECURSIVE Concat(_)
Concat(ss) == IF ss = <<>> THEN <<>> ELSE Head(ss) \o Concat(Tail(ss))

Sizes(ss) == [k \in 1..Len(ss) |-> Len(ss[k])]

Count(s, x) == Cardinality({k \in 1..Len(s) : s[k] = x})

(***************************************************************************)
(* __data_generator                                                        *)
(***************************************************************************)
\* sklearn.utils.shuffle(files): a copy of the list in any order.
shuffleResample(fs) ==
    {[k \in 1..Len(fs) |-> fs[p[k]]] : p \in [1..Len(fs) -> 1..Len(fs)]}

shuffle(fs) ==
    {[k \in 1..Len(fs) |-> fs[p[k]]] :
        p \in {q \in [1..Len(fs) -> 1..Len(fs)] :
                 \A a, b \in 1..Len(fs) : a # b => q[a] # q[b]}}

\* line 330: files = shuffle(files) if shuffle_and_repeat else files
InitialFiles(fs, rep) == IF rep THEN shuffle(fs) ELSE {fs}

\* line 333: samples = np.zeros((batch_size, 7810))
Zeros(b) == [k \in 1..b |-> 0]

ExhaustedEarly(ii, fs) == ii >= Len(fs) - 1

\* line 338: if i >= len(files)
Exhausted(ii, fs) == ii >= Len(fs)

\* line 344: samples, labels = samples[:j], labels[:j]
TruncateNone(samples, j) == samples

Truncate(samples, j) == SubSeq(samples, 1, j)

\* line 354: i += 1
AdvanceNever(ii) == ii

AdvanceTwice(ii) == ii + 2

Advance(ii) == ii + 1

\* line 339: if shuffle_and_repeat (taken once the files are consumed)
RepeatsNever(rep) == FALSE

Repeats(rep) == rep

\* One pass of `for j in range(batch_size)` from row j on: the set of ways
\* the loop can end.  raised = "none": the loop ended and the batch is
\* yielded; otherwise the exception that left the generator.
LoadsAnything(f) == TRUE

\* line 349: np.load(files[i]) reads the file, or raises on one it cannot read
Loads(f) == f \notin bad_files

RECURSIVE ForLoop(_, _, _, _, _, _)
RECURSIVE LoadRow(_, _, _, _, _, _)
ForLoop(fs, ii, j, samples, rep, b) ==
    IF j >= b
    THEN {[files |-> fs, i |-> ii, run |-> TRUE, samples |-> samples,
           raised |-> "none"]}
    ELSE IF Exhausted(ii, fs)
         THEN IF Repeats(rep)
              THEN UNION {LoadRow(gs, 0, j, samples, rep, b) : gs \in shuffle(fs)}
              ELSE {[files |-> fs, i |-> ii, run |-> FALSE,
                     samples |-> Truncate(samples, j), raised |-> "none"]}
         ELSE LoadRow(fs, ii, j, samples, rep, b)

\* lines 348-354: np.load(files[i]), fill row j, i += 1
LoadRow(fs, ii, j, samples, rep, b) ==
    IF ii >= Len(fs)
    THEN {[files |-> fs, i |-> ii, run |-> TRUE, samples |-> samples,
           raised |-> "IndexError"]}
    ELSE IF ~Loads(fs[ii + 1])
    THEN {[files |-> fs, i |-> ii, run |-> TRUE, samples |-> samples,
           raised |-> "LoadError"]}
    ELSE ForLoop(fs, Advance(ii), j + 1,
                 [samples EXCEPT ![j + 1] = fs[ii + 1]], rep, b)

\* The generator runs from the top of `while run` to its next yield, to its
\* end, or to an exception.
WhileRun(fs, ii, r) ==
    IF ~r
    THEN /\ gen_state' = "closed"
         /\ outcome' = "StopIteration"
         /\ UNCHANGED <<files, i, run, batches>>
    ELSE \E o \in ForLoop(fs, ii, 0, Zeros(batch_size), shuffle_and_repeat, batch_size) :
            /\ files' = o.files
            /\ i' = o.i
            /\ run' = o.run
            /\ IF o.raised = "none"
               THEN /\ gen_state' = "suspended"
                    /\ outcome' = "batch"
                    /\ batches' = Append(batches, o.samples)
               ELSE /\ gen_state' = "closed"
                    /\ outcome' = o.raised
                    /\ UNCHANGED batches

RequestAllowed ==
    /\ requests < MaxRequests
    /\ shuffle_and_repeat => Len(Concat(batches)) + batch_size <= MaxRows

\* first next(): lines 328-330, then the loop
Start ==
    /\ gen_state = "created"
    /\ RequestAllowed
    /\ requests' = requests + 1
    /\ \E fs \in InitialFiles(file_list, shuffle_and_repeat) : WhileRun(fs, 0, TRUE)
    /\ UNCHANGED <<file_list, batch_size, shuffle_and_repeat, bad_files>>
    /\ UNCHANGED <<labelVars, prepVars, mixVars, moreVars>>

\* a later next(): resumes after the yield of line 355
Resume ==
    /\ gen_state = "suspended"
    /\ RequestAllowed
    /\ requests' = requests + 1
    /\ WhileRun(files, i, run)
    /\ UNCHANGED <<file_list, batch_size, shuffle_and_repeat, bad_files>>
    /\ UNCHANGED <<labelVars, prepVars, mixVars, moreVars>>

\* next() on a generator that returned or raised: StopIteration
RequestClosed ==
    /\ gen_state = "closed"
    /\ RequestAllowed
    /\ requests' = requests + 1
    /\ outcome' = "StopIteration"
    /\ UNCHANGED <<files, i, run, gen_state, batches>>
    /\ UNCHANGED <<file_list, batch_size, shuffle_and_repeat, bad_files>>
    /\ UNCHANGED <<labelVars, prepVars, mixVars, moreVars>>

GenIdle ==
    /\ file_list = <<>>
    /\ shuffle_and_repeat = FALSE
    /\ files = <<>>
    /\ i = 0
    /\ run = TRUE
    /\ gen_state = "created"
    /\ outcome = "none"
    /\ batches = <<>>
    /\ requests = 0
    /\ bad_files = {}

GenUnused == batch_size = 1 /\ GenIdle

LabelUnused ==
    /\ labels = <<>>
    /\ dict_or_np = "dict"
    /\ trans_dict = [kind |-> "unset"]
    /\ label_data = [kind |-> "scalar", value |-> 0]
    /\ transformed = [kind |-> "none"]

PrepUnused ==
    /\ train_labels = <<>>
    /\ test_labels = <<>>
    /\ dataset = [kind |-> "none"]

MixUnused ==
    /\ train_labels_hh = <<>>
    /\ train_labels_syn = <<>>
    /\ mixture_pct = 0
    /\ mixture = [kind |-> "none"]

HeatUnused ==
    /\ target_preds = <<>>
    /\ acc_heatmap = [kind |-> "none"]

GridUnused ==
    /\ test_filepaths = <<>>
    /\ transition_matrix = [kind |-> "none"]
    /\ HeatUnused

NameUnused ==
    /\ name_fields = <<>>
    /\ layout = "repository"
    /\ targets = 0
    /\ extracted = [kind |-> "none"]

CallUnused ==
    /\ cls_choice = 0
    /\ chosen = [kind |-> "none"]
    /\ dataset_choice = 0
    /\ target = 0
    /\ dataset_configs = {}
    /\ train_data = <<>>
    /\ test_data = <<>>
    /\ synth_data = <<>>
    /\ prepared = [kind |-> "none"]

NormaliseUnused ==
    /\ sample = <<>>
    /\ normalisation = 0
    /\ normalised = [kind |-> "unset"]

BaselineUnused ==
    /\ spectrum = <<>>
    /\ corrected = [kind |-> "unset"]

NormUnused == NormaliseUnused /\ BaselineUnused

PairUnused ==
    /\ heap = <<>>
    /\ gens = <<>>

RowUnused ==
    /\ file_labels = <<>>
    /\ file_samples = <<>>
    /\ categorical = TRUE

MoreUnused ==
    /\ GridUnused /\ NameUnused /\ CallUnused /\ NormUnused /\ PairUnused
    /\ RowUnused

GenInit ==
    /\ \E n \in 0..MaxFiles : file_list = [k \in 1..n |-> k]
    /\ batch_size \in 1..MaxBatch
    /\ shuffle_and_repeat \in BOOLEAN
    /\ shuffle_and_repeat => Len(file_list) <= MaxShuffled
    /\ files = file_list
    /\ i = 0
    /\ run = TRUE
    /\ gen_state = "created"
    /\ outcome = "none"
    /\ batches = <<>>
    /\ requests = 0
    /\ bad_files = {}
    /\ LabelUnused /\ PrepUnused /\ MixUnused /\ MoreUnused

GenNext == Start \/ Resume \/ RequestClosed

SpecGen == GenInit /\ [][GenNext]_vars

(***************************************************************************)
(* Claims about the batch generator, checked under SpecGen.                *)
(***************************************************************************)
NumFiles == Len(file_list)

\* the batch sizes of a single pass over n files when b does not divide n
ShortTailSizes(n, b) ==
    [k \in 1..((n \div b) + 1) |-> IF k <= n \div b THEN b ELSE n % b]

\* C1: single-pass mode, n not a multiple of b: the generator yields
\* floor(n/b) batches of b rows, then one batch of n mod b rows, then
\* terminates; every later request yields nothing (StopIteration).
C1_SinglePassSizes ==
    (~shuffle_and_repeat /\ NumFiles % batch_size # 0) =>
        LET expected == ShortTailSizes(NumFiles, batch_size) IN
        /\ Sizes(batches) = SubSeq(expected, 1, Min(requests, Len(expected)))
        /\ requests <= Len(expected) => gen_state # "closed"
        /\ requests > Len(expected) =>
              gen_state = "closed" /\ outcome = "StopIteration"

C1_Witness ==
    /\ ~shuffle_and_repeat
    /\ NumFiles = 10
    /\ batch_size = 4
    /\ Sizes(batches) = <<4, 4, 2>>
    /\ requests = 5
    /\ gen_state = "closed"

\* C2: single-pass mode: the rows yielded so far, in yield order, are the
\* first files of the given list in the given order, and once the generator
\* has terminated they are the whole list, each file exactly once.
C2_SinglePassOrder ==
    ~shuffle_and_repeat =>
        /\ Concat(batches) =
              SubSeq(file_list, 1, Min(NumFiles, requests * batch_size))
        /\ gen_state = "closed" => Concat(batches) = file_list

C2_Witness ==
    /\ ~shuffle_and_repeat
    /\ gen_state = "closed"
    /\ NumFiles = 7
    /\ batch_size = 3
    /\ Concat(batches) = <<1, 2, 3, 4, 5, 6, 7>>

\* C3: repeating mode, n >= 1: every window k*n .. (k+1)*n - 1 of the row
\* stream that has been emitted in full holds each file exactly once.
C3_EachPassIsPermutation ==
    (shuffle_and_repeat /\ NumFiles >= 1) =>
        LET stream == Concat(batches) IN
        \A k \in 0..(Len(stream) \div NumFiles) :
            (k + 1) * NumFiles <= Len(stream) =>
                \A f \in Range(file_list) :
                    Count(SubSeq(stream, k * NumFiles + 1, (k + 1) * NumFiles), f) = 1

C3_Witness ==
    /\ shuffle_and_repeat
    /\ NumFiles = 3
    /\ batch_size = 5
    /\ Len(batches) = 2
    /\ Len(Concat(batches)) = 10

\* C4: repeating mode, n >= 1: the generator never terminates: every
\* request yields a batch, and every batch has exactly batch_size rows, each
\* of them filled from a file.
C4_RepeatingNeverEnds ==
    (shuffle_and_repeat /\ NumFiles >= 1) =>
        /\ gen_state # "closed"
        /\ Len(batches) = requests
        /\ \A k \in 1..Len(batches) :
              /\ Len(batches[k]) = batch_size
              /\ Range(batches[k]) \subseteq Range(file_list)

C4_Witness ==
    /\ shuffle_and_repeat
    /\ NumFiles = 2
    /\ batch_size = 3
    /\ requests = 3
    /\ outcome = "batch"

(***************************************************************************)
(* get_transformation_dict and transform_labels                            *)
(*                                                                         *)
(* A mapping is [kind |-> "dict", map |-> f] with DOMAIN f the keys, or    *)
(* [kind |-> "array", map |-> f] with DOMAIN f = 0..max(labels); a failed  *)
(* call is [kind |-> "error", raised |-> <exception>].                     *)
(***************************************************************************)
RECURSIVE SortSet(_)
SortSet(S) ==
    IF S = {} THEN <<>>
    ELSE LET m == CHOOSE x \in S : \A y \in S : x <= y
         IN  <<m>> \o SortSet(S \ {m})

Max(S) == CHOOSE x \in S : \A y \in S : y <= x

\* the distinct elements in order of first appearance (no sort)
RECURSIVE FirstSeen(_)
FirstSeen(ls) ==
    IF ls = <<>> THEN <<>>
    ELSE LET front == FirstSeen(SubSeq(ls, 1, Len(ls) - 1))
         IN  IF ls[Len(ls)] \in Range(front) THEN front
             ELSE Append(front, ls[Len(ls)])

\* np.unique(labels): the distinct values, ascending
np_uniqueUnsorted(ls) == FirstSeen(ls)

np_unique(ls) == SortSet(Range(ls))

\* line 106: {unique_label : i for i, unique_label in enumerate(...)}
Enumerate(u) ==
    [l \in Range(u) |-> (CHOOSE k \in 1..Len(u) : u[k] = l) - 1]

\* line 108: the array of size max+1, 0 where the ID is no key
DenseArrayKeepsIndex(d) ==
    [idx \in 0..Max(DOMAIN d) |-> IF idx \in DOMAIN d THEN d[idx] ELSE idx]

DenseArray(d) ==
    [idx \in 0..Max(DOMAIN d) |-> IF idx \in DOMAIN d THEN d[idx] ELSE 0]

get_transformation_dict(ls, form) ==
    LET d == Enumerate(np_unique(ls)) IN
    IF form = "np" \/ form = "numpy"
    THEN IF ls = <<>>
         THEN [kind |-> "error", raised |-> "ValueError"]   \* np.max of nothing
         ELSE [kind |-> "array", map |-> DenseArray(d)]
    ELSE [kind |-> "dict", map |-> d]

\* trans_dict[l]: -1 stands for KeyError, -2 for IndexError
KeyError == -1
IndexError == -2

\* a lookup that falls back to index 0, as dict.get(l, 0) would
GetItemDefault(td, l) ==
    IF l \in DOMAIN td.map THEN td.map[l] ELSE 0

GetItem(td, l) ==
    IF td.kind = "dict"
    THEN IF l \in DOMAIN td.map THEN td.map[l] ELSE KeyError
    ELSE LET len == Max(DOMAIN td.map) + 1 IN
         IF 0 <= l /\ l < len THEN td.map[l]
         ELSE IF -len <= l /\ l < 0 THEN td.map[len + l]   \* negative index
         ELSE IndexError

ErrorName(code) == IF code = KeyError THEN "KeyError" ELSE "IndexError"

\* lines 120-123
transform_labels(data, td) ==
    IF data.kind = "list"
    THEN LET got == [k \in 1..Len(data.value) |-> GetItem(td, data.value[k])] IN
         IF \E k \in 1..Len(got) : got[k] < 0
         THEN LET first == CHOOSE k \in 1..Len(got) :
                              got[k] < 0 /\ \A m \in 1..(k - 1) : got[m] >= 0
              IN  [kind |-> "error", raised |-> ErrorName(got[first])]
         ELSE [kind |-> "array", value |-> got]
    ELSE LET got == GetItem(td, data.value) IN
         IF got < 0 THEN [kind |-> "error", raised |-> ErrorName(got)]
         ELSE [kind |-> "scalar", value |-> got]

\* line 424: sorted(trans_dict.keys())
classes_orig(td) == SortSet(DOMAIN td.map)

LabelIds == 0..MaxLabelId
QueryIds == (-1)..(MaxLabelId + 1)

SeqsUpTo(S, n) == UNION {[1..m -> S] : m \in 0..n}

GetTransformationDict ==
    /\ trans_dict.kind = "unset"
    /\ trans_dict' = get_transformation_dict(labels, dict_or_np)
    /\ UNCHANGED <<labels, dict_or_np, label_data, transformed>>
    /\ UNCHANGED <<genVars, prepVars, mixVars, moreVars>>

TransformLabels ==
    /\ trans_dict.kind \in {"dict", "array"}
    /\ transformed.kind = "none"
    /\ transformed' = transform_labels(label_data, trans_dict)
    /\ UNCHANGED <<labels, dict_or_np, trans_dict, label_data>>
    /\ UNCHANGED <<genVars, prepVars, mixVars, moreVars>>

LabelInit ==
    /\ labels \in SeqsUpTo(LabelIds, MaxLabels)
    /\ dict_or_np \in {"dict", "np", "numpy"}
    /\ trans_dict = [kind |-> "unset"]
    /\ label_data \in
          {[kind |-> "scalar", value |-> l] : l \in QueryIds} \cup
          {[kind |-> "list", value |-> ls] : ls \in SeqsUpTo(QueryIds, MaxQuery)}
    /\ transformed = [kind |-> "none"]
    /\ GenUnused /\ PrepUnused /\ MixUnused /\ MoreUnused

LabelNext == GetTransformationDict \/ TransformLabels

SpecLabels == LabelInit /\ [][LabelNext]_vars

(***************************************************************************)
(* Claims about the label remapping, checked under SpecLabels.             *)
(***************************************************************************)
Queried ==
    IF label_data.kind = "list" THEN Range(label_data.value)
    ELSE {label_data.value}

\* C5: the dict form maps the distinct label IDs, in ascending order, onto
\* 0..N-1: an order-preserving bijection, and indexing the ascending list of
\* original IDs (classes_orig) with the mapped index gives the ID back.
C5_DictIsOrderedBijection ==
    trans_dict.kind = "dict" =>
        LET d == trans_dict.map
            ids == Range(labels)
            N == Cardinality(ids)
        IN  /\ DOMAIN d = ids
            /\ {d[l] : l \in ids} = 0..(N - 1)
            /\ \A a, b \in ids : a < b => d[a] < d[b]
            /\ Len(classes_orig(trans_dict)) = N
            /\ \A l \in ids : classes_orig(trans_dict)[d[l] + 1] = l

C5_Witness ==
    /\ trans_dict.kind = "dict"
    /\ labels = <<2, 0, 2>>
    /\ trans_dict.map[0] = 0
    /\ trans_dict.map[2] = 1

\* C7: with the dict form, transform_labels of a scalar or of a sequence
\* that holds an ID outside the mapping's keys raises KeyError and returns
\* nothing, not even the labels it had already mapped.
C7_DictLookupFails ==
    (/\ trans_dict.kind = "dict"
     /\ transformed.kind # "none"
     /\ \E l \in Queried : l \notin DOMAIN trans_dict.map) =>
        transformed = [kind |-> "error", raised |-> "KeyError"]

C7_Witness ==
    /\ trans_dict.kind = "dict"
    /\ labels = <<0, 2>>
    /\ label_data = [kind |-> "list", value |-> <<0, 1>>]
    /\ transformed.kind = "error"

\* C8 as stated: with the array form every label ID that is no key of the
\* mapping is transformed to index 0 without an error.
C8_ArrayAbsentIsZero ==
    (/\ trans_dict.kind = "array"
     /\ transformed.kind # "none"
     /\ label_data.kind = "scalar"
     /\ label_data.value >= 0
     /\ label_data.value \notin Range(labels)) =>
        transformed = [kind |-> "scalar", value |-> 0]

\* C8 amended: with the array form an absent ID between 0 and the largest
\* training ID is transformed to index 0 without an error; an ID above the
\* largest training ID raises IndexError.
C8_ArrayAbsentInRangeIsZero ==
    (/\ trans_dict.kind = "array"
     /\ transformed.kind # "none"
     /\ \A l \in Queried : l >= 0) =>
        IF \E l \in Queried : l > Max(Range(labels))
        THEN transformed = [kind |-> "error", raised |-> "IndexError"]
        ELSE /\ transformed.kind # "error"
             /\ label_data.kind = "scalar" =>
                   (label_data.value \notin Range(labels) => transformed.value = 0)
             /\ label_data.kind = "list" =>
                   /\ Len(transformed.value) = Len(label_data.value)
                   /\ \A k \in 1..Len(label_data.value) :
                         label_data.value[k] \notin Range(labels) =>
                             transformed.value[k] = 0

C8_Witness ==
    /\ trans_dict.kind = "array"
    /\ labels = <<0, 2>>
    /\ label_data = [kind |-> "list", value |-> <<1, 2>>]
    /\ transformed = [kind |-> "array", value |-> <<0, 1>>]

(***************************************************************************)
(* prepare_dataset                                                         *)
(*                                                                         *)
(* train_labels and test_labels are what __get_labels returns for the      *)
(* sorted train and test file lists (lines 402-406); file k of a list is   *)
(* the one whose label is element k.  A weight is the fraction num/den.    *)
(***************************************************************************)
CeilFloor(a, b) == a \div b

\* ceil(a / b), b >= 1
Ceil(a, b) == (a + b - 1) \div b

\* sklearn's compute_class_weight('balanced', classes, y): ValueError when
\* y holds a label that is no class or a class does not occur in y, else
\* len(y) / (len(le.classes_) * bincount(le.fit_transform(y))), taken at
\* le.transform(classes)
compute_class_weightRawBincount(classes, y) ==
    [kind |-> "weights",
     value |-> [k \in 1..Len(classes) |->
                   [num |-> Len(y),
                    den |-> Len(np_unique(y)) * Count(y, k - 1)]]]

compute_class_weightNoClassCount(classes, y) ==
    [kind |-> "weights",
     value |-> [k \in 1..Len(classes) |->
                   [num |-> Len(y), den |-> Count(y, np_unique(y)[k])]]]

compute_class_weight(classes, y) ==
    LET le_classes == np_unique(y)
        y_ind == [k \in 1..Len(y) |-> Enumerate(le_classes)[y[k]]]
        bincount == [c \in 0..(Len(le_classes) - 1) |-> Count(y_ind, c)]
        recip_freq == [c \in 0..(Len(le_classes) - 1) |->
                          [num |-> Len(y), den |-> Len(le_classes) * bincount[c]]]
    IN  IF Range(y) \subseteq Range(classes) /\ Range(classes) \subseteq Range(le_classes)
        THEN [kind |-> "weights",
              value |-> [k \in 1..Len(classes) |->
                            recip_freq[Enumerate(le_classes)[classes[k]]]]]
        ELSE [kind |-> "error", raised |-> "ValueError"]

\* line 409: the labels the mapping is built from
MappingLabelsBothSplits(train, test) == train \o test

MappingLabels(train, test) == train

\* the arguments a generator is created with (lines 416-418)
GeneratorArgs(n, num_classes, b, td, rep) ==
    [files |-> [k \in 1..n |-> k], num_classes |-> num_classes,
     batch_size |-> b, trans_dict |-> td, shuffle_and_repeat |-> rep]

AsList(ls) == [kind |-> "list", value |-> ls]

\* lines 405-431; train_shuffle_repeat has its default, True
prepare_dataset(train, test, b) ==
    LET num_classes == Len(np_unique(train))
        td == get_transformation_dict(MappingLabels(train, test), "dict")
        weights == compute_class_weight(classes_orig(td), train)
        train_trans == transform_labels(AsList(train), td)
        test_trans == transform_labels(AsList(test), td)
    IN  IF weights.kind = "error" THEN weights
        ELSE IF train_trans.kind = "error" THEN train_trans
        ELSE IF test_trans.kind = "error" THEN test_trans
        ELSE [kind |-> "descriptor",
              train_data |-> GeneratorArgs(Len(train), num_classes, b, td, TRUE),
              eval_data |-> GeneratorArgs(Len(test), num_classes, b, td, FALSE),
              test_data |-> GeneratorArgs(Len(test), num_classes, b, td, FALSE),
              train_labels |-> train_trans.value,
              test_labels |-> test_trans.value,
              batch_size |-> b,
              num_classes |-> num_classes,
              classes_orig |-> classes_orig(td),
              classes_trans |-> SortSet({td.map[l] : l \in DOMAIN td.map}),
              train_steps |-> Ceil(Len(train), b),
              test_steps |-> Ceil(Len(test), b),
              class_weights |->
                  [c \in 0..(Len(weights.value) - 1) |-> weights.value[c + 1]]]

PrepareDataset ==
    /\ dataset.kind = "none"
    /\ dataset' = prepare_dataset(train_labels, test_labels, batch_size)
    /\ UNCHANGED <<train_labels, test_labels, batch_size>>
    /\ UNCHANGED <<file_list, shuffle_and_repeat, files, i, run, gen_state,
                   outcome, batches, requests, bad_files>>
    /\ UNCHANGED <<labelVars, mixVars, moreVars>>

\* The training split holds at least one file (the data sets of the
\* repository do); the test split may be empty.
PrepInit ==
    /\ train_labels \in SeqsUpTo(LabelIds, MaxLabels) \ {<<>>}
    /\ test_labels \in SeqsUpTo(LabelIds, MaxQuery)
    /\ batch_size \in 1..MaxBatch
    /\ dataset = [kind |-> "none"]
    /\ GenIdle /\ LabelUnused /\ MixUnused /\ MoreUnused

PrepNext == PrepareDataset

SpecPrep == PrepInit /\ [][PrepNext]_vars

(***************************************************************************)
(* Claims about prepare_dataset, checked under SpecPrep.                   *)
(***************************************************************************)
\* C6: the mapping is built from the training labels only and the same
\* mapping serves the train, eval and test generators and test_labels; a
\* test label that is no training label makes preparation fail with
\* KeyError, and no descriptor is returned.
C6_OneMappingFromTraining ==
    dataset.kind # "none" =>
        IF Range(test_labels) \subseteq Range(train_labels)
        THEN /\ dataset.kind = "descriptor"
             /\ DOMAIN dataset.train_data.trans_dict.map = Range(train_labels)
             /\ dataset.eval_data.trans_dict = dataset.train_data.trans_dict
             /\ dataset.test_data.trans_dict = dataset.train_data.trans_dict
             /\ dataset.test_labels =
                   [k \in 1..Len(test_labels) |->
                       dataset.train_data.trans_dict.map[test_labels[k]]]
        ELSE dataset = [kind |-> "error", raised |-> "KeyError"]

C6_Witness ==
    /\ train_labels = <<0, 2>>
    /\ test_labels = <<2, 1>>
    /\ dataset = [kind |-> "error", raised |-> "KeyError"]

\* C9: the keys of class_weights are 0..N-1 and class_weights[i] is
\* total / (N * number of training samples whose label is the i-th smallest
\* original label ID).
C9_BalancedClassWeights ==
    dataset.kind = "descriptor" =>
        LET ids == SortSet(Range(train_labels))
            N == Len(ids)
            w == dataset.class_weights
        IN  /\ DOMAIN w = 0..(N - 1)
            /\ \A c \in 0..(N - 1) :
                  /\ w[c].den > 0
                  /\ w[c].num * (N * Count(train_labels, ids[c + 1])) =
                        Len(train_labels) * w[c].den

C9_Witness ==
    /\ dataset.kind = "descriptor"
    /\ train_labels = <<0, 2, 2>>
    /\ dataset.class_weights[0] = [num |-> 3, den |-> 2]
    /\ dataset.class_weights[1] = [num |-> 3, den |-> 4]

(***************************************************************************)
(* prepare_mixture_dataset                                                 *)
(*                                                                         *)
(* train_labels_hh / train_labels_syn are what __get_labels returns for    *)
(* the two sorted training lists (lines 482-491); handheld training file k *)
(* is <<"hh", k>>, synthetic training file k is <<"syn", k>>.              *)
(* mixture_pct holds the numerator of the fraction mixture_pct / PctUnit.  *)
(***************************************************************************)
\* lines 494-495: dict(zip(*np.unique(labels, return_counts=True))), as the
\* list of its items in insertion (ascending label) order
LabelCounts(ls) ==
    [k \in 1..Len(np_unique(ls)) |->
        [label |-> np_unique(ls)[k], count |-> Count(ls, np_unique(ls)[k])]]

\* line 500: n = int(hhc * mixture_pct)
Requested(hhc, pct) == (hhc * pct) \div PctUnit

\* line 505: np.where(train_labels_syn == hhl)[0]
RECURSIVE Where(_, _)
Where(ls, l) ==
    IF ls = <<>> THEN <<>>
    ELSE LET front == Where(SubSeq(ls, 1, Len(ls) - 1), l)
         IN  IF ls[Len(ls)] = l THEN Append(front, Len(ls)) ELSE front

\* a[:n], n >= 0
Take(a, n) == SubSeq(a, 1, Min(n, Len(a)))

\* lines 498-507: iteration k of the loop over
\* zip(hh_counts.items(), syn_counts.items()) and those after it
RECURSIVE MixLoop(_, _, _, _, _, _, _, _)
MixLoop(k, hh_items, syn_items, syn_labels, pct, data, labs, warned) ==
    IF k > Min(Len(hh_items), Len(syn_items))
    THEN [train_data |-> data, train_labels |-> labs, warnings |-> warned]
    ELSE LET hhl == hh_items[k].label
             hhc == hh_items[k].count
             sync == syn_items[k].count
             n == Requested(hhc, pct)
             indices == Take(Where(syn_labels, hhl), n)
         IN  MixLoop(k + 1, hh_items, syn_items, syn_labels, pct,
                     data \o [j \in 1..Len(indices) |-> <<"syn", indices[j]>>],
                     labs \o [j \in 1..Len(indices) |-> syn_labels[indices[j]]],
                     IF n > sync
                     THEN Append(warned, [label |-> hhl, n |-> n, sync |-> sync])
                     ELSE warned)

\* lines 482-537
prepare_mixture_dataset(train_hh, train_syn, test_hh, pct, b) ==
    LET mixed == MixLoop(1, LabelCounts(train_hh), LabelCounts(train_syn),
                         train_syn, pct,
                         [k \in 1..Len(train_hh) |-> <<"hh", k>>], train_hh, <<>>)
        num_classes == Len(np_unique(mixed.train_labels))
        td == get_transformation_dict(mixed.train_labels, "dict")
        weights == compute_class_weight(classes_orig(td), mixed.train_labels)
        train_trans == transform_labels(AsList(mixed.train_labels), td)
        test_trans == transform_labels(AsList(test_hh), td)
    IN  IF weights.kind = "error"
        THEN [kind |-> "error", raised |-> weights.raised,
              warnings |-> mixed.warnings]
        ELSE IF train_trans.kind = "error"
        THEN [kind |-> "error", raised |-> train_trans.raised,
              warnings |-> mixed.warnings]
        ELSE IF test_trans.kind = "error"
        THEN [kind |-> "error", raised |-> test_trans.raised,
              warnings |-> mixed.warnings]
        ELSE [kind |-> "descriptor",
              warnings |-> mixed.warnings,
              train_files |-> mixed.train_data,
              train_data |-> GeneratorArgs(Len(mixed.train_data), num_classes,
                                           b, td, TRUE),
              eval_data |-> GeneratorArgs(Len(test_hh), num_classes, b, td, FALSE),
              test_data |-> GeneratorArgs(Len(test_hh), num_classes, b, td, FALSE),
              train_labels |-> train_trans.value,
              test_labels |-> test_trans.value,
              batch_size |-> b,
              num_classes |-> num_classes,
              classes_orig |-> classes_orig(td),
              classes_trans |-> SortSet({td.map[l] : l \in DOMAIN td.map}),
              train_steps |-> Ceil(Len(mixed.train_labels), b),
              test_steps |-> Ceil(Len(test_hh), b),
              class_weights |->
                  [c \in 0..(Len(weights.value) - 1) |-> weights.value[c + 1]]]

PrepareMixtureDataset ==
    /\ mixture.kind = "none"
    /\ mixture' = prepare_mixture_dataset(train_labels_hh, train_labels_syn,
                                          test_labels, mixture_pct, batch_size)
    /\ UNCHANGED <<train_labels_hh, train_labels_syn, mixture_pct>>
    /\ UNCHANGED <<genVars, labelVars, prepVars, moreVars>>

MixLabelIds == 0..MaxMixLabelId

\* The handheld training split holds at least one file; test_labels are the
\* labels of the handheld test split.
MixInit ==
    /\ train_labels_hh \in SeqsUpTo(MixLabelIds, MaxMixLabels) \ {<<>>}
    /\ train_labels_syn \in SeqsUpTo(MixLabelIds, MaxMixLabels)
    /\ mixture_pct \in 0..MaxPctSteps
    /\ mixture = [kind |-> "none"]
    /\ test_labels \in SeqsUpTo(MixLabelIds, MaxMixTest)
    /\ batch_size \in 1..MaxBatch
    /\ train_labels = <<>>
    /\ dataset = [kind |-> "none"]
    /\ GenIdle /\ LabelUnused /\ MoreUnused

MixNext == PrepareMixtureDataset

SpecMix == MixInit /\ [][MixNext]_vars

(***************************************************************************)
(* Claims about prepare_mixture_dataset, checked under SpecMix.            *)
(***************************************************************************)
\* the synthetic training files, by index, that were appended
AppendedSyn ==
    {mixture.train_files[j][2] :
        j \in {m \in 1..Len(mixture.train_files) :
                  mixture.train_files[m][1] = "syn"}}

\* C10: for every label l present in both training splits, exactly
\* min(int(c_hh(l) * mixture_pct), c_syn(l)) synthetic training files are
\* appended to the handheld training list, all of them with label l, also
\* when the two sources do not have the same set of labels.
C10_MixesEverySharedLabel ==
    mixture.kind = "descriptor" =>
        \A l \in Range(train_labels_hh) \cap Range(train_labels_syn) :
            Cardinality({k \in AppendedSyn : train_labels_syn[k] = l}) =
                Min(Requested(Count(train_labels_hh, l), mixture_pct),
                    Count(train_labels_syn, l))

\* the handheld labels a warning of line 502 was printed for
WarnedLabels == {mixture.warnings[k].label : k \in 1..Len(mixture.warnings)}

\* C11: the warning "requested amount of data is larger than synthetic
\* data" is printed for a handheld label l exactly when the requested count
\* int(c_hh(l) * mixture_pct) exceeds the number of synthetic training
\* files that carry label l.
C11_WarnsWhenLabelIsShort ==
    mixture.kind # "none" =>
        \A l \in Range(train_labels_hh) :
            l \in WarnedLabels <=>
                Requested(Count(train_labels_hh, l), mixture_pct) >
                    Count(train_labels_syn, l)

\* ---------------------------------------------------------------------
\* get_64shot_transition_matrix (utils.py 218-263)
\*
\* A file path is modelled by the token list of its base name,
\* path.split(sep)[-1].split('_'); a token is modelled by the integer its
\* digits denote, and the last token carries the extension that [:-4] cuts.
\* ---------------------------------------------------------------------
MaxGridFiles == 3
GridSize == 8
NameTokens == 5
GridMineralIds == {1, 2}
GridPoints == {1, 2}
ShotIds == {1, 8, 9, 64}

\* the names csvtonumpy.py writes: id, class, subgroup, measure point, shot
GridNames ==
    {<<m, 0, 0, p, [stem |-> s, ext |-> ".npy"]>> :
        m \in GridMineralIds, p \in GridPoints, s \in ShotIds}

\* names with one more token between the measure point and the shot
GridNamesLong ==
    {<<m, 0, 0, p, 0, [stem |-> s, ext |-> ".npy"]>> :
        m \in GridMineralIds, p \in GridPoints, s \in ShotIds}

\* m_id, _, _, measure_point, _ = name.split('_') unpacks exactly five tokens
Unpacks(name) == Len(name) = NameTokens

SameRunPointOnly(a, b) == a[4] = b[4]

\* line 239: m_id == m_id_j and measure_point == mp_j
SameRun(a, b) == a[1] = b[1] /\ a[4] = b[4]

\* lines 238-244: the look-ahead from file j on for the run that starts at
\* file head; the result is the index after the last file of the run
RECURSIVE LookAhead(_, _, _)
LookAhead(paths, head, j) ==
    IF j > Len(paths) THEN [kind |-> "end", next |-> j]
    ELSE IF ~Unpacks(paths[j]) THEN [kind |-> "error", raised |-> "ValueError"]
    ELSE IF SameRun(paths[head], paths[j]) THEN LookAhead(paths, head, j + 1)
    ELSE [kind |-> "end", next |-> j]

\* lines 228-245: measure_point_split, the list of the runs
RECURSIVE MeasurePointSplit(_, _, _)
MeasurePointSplit(paths, ii, acc) ==
    IF ii > Len(paths) THEN [kind |-> "split", value |-> acc]
    ELSE IF ~Unpacks(paths[ii]) THEN [kind |-> "error", raised |-> "ValueError"]
    ELSE LET run_end == LookAhead(paths, ii, ii)
         IN IF run_end.kind = "error" THEN run_end
            ELSE MeasurePointSplit(paths, run_end.next,
                     Append(acc, SubSeq(paths, ii, run_end.next - 1)))

ShotIdOneBased(name) == name[Len(name)].stem

\* line 256: int(sample.split('/')[-1].split('_')[-1][:-4]) - 1
ShotId(name) == name[Len(name)].stem - 1

\* division that rounds towards zero, as in C
TransitionRowTruncating(j, name) ==
    LET q == IF ShotId(name) < 0 THEN -((-ShotId(name)) \div GridSize)
             ELSE ShotId(name) \div GridSize
    IN <<j, q, ShotId(name) - GridSize * q>>

\* lines 257-259: the row of one file of run j
TransitionRow(j, name) ==
    <<j, ShotId(name) \div GridSize, ShotId(name) % GridSize>>

\* lines 248-263
get_64shot_transition_matrix(paths) ==
    LET split == MeasurePointSplit(paths, 1, <<>>)
    IN IF split.kind = "error" THEN split
       ELSE [kind |-> "matrix",
             value |-> Concat([j \in 1..Len(split.value) |->
                          [k \in 1..Len(split.value[j]) |->
                              TransitionRow(j - 1, split.value[j][k])]])]

GetTransitionMatrix ==
    /\ transition_matrix.kind = "none"
    /\ transition_matrix' = get_64shot_transition_matrix(test_filepaths)
    /\ UNCHANGED <<genVars, labelVars, prepVars,
                   rowVars, mixVars, test_filepaths, target_preds, acc_heatmap,
                   nameVars, callVars, normVars, pairVars>>

GridInit ==
    /\ test_filepaths \in SeqsUpTo(GridNames, MaxGridFiles)
                          \cup SeqsUpTo(GridNamesLong, MaxGridFiles)
    /\ transition_matrix = [kind |-> "none"]
    /\ HeatUnused
    /\ GenUnused /\ LabelUnused /\ PrepUnused /\ RowUnused /\ MixUnused
    /\ NameUnused /\ CallUnused /\ NormUnused /\ PairUnused

GridNext == GetTransitionMatrix

SpecGrid == GridInit /\ [][GridNext]_vars

\* the files are the ones the repository writes: five tokens each
FiveTokenNames ==
    \A k \in 1..Len(test_filepaths) : Unpacks(test_filepaths[k])

\* the number of run boundaries in front of file k
RunsBefore(k) ==
    Cardinality({m \in 1..(k - 1) :
        ~(test_filepaths[m][1] = test_filepaths[m + 1][1]
          /\ test_filepaths[m][4] = test_filepaths[m + 1][4])})

\* C12: for test files named as the repository names them, the transition
\* matrix has exactly one row per file, in input order; the row of a file
\* with 1-based shot index s is (mp, (s-1) div 8, (s-1) mod 8) with mp the
\* sequential index of the file's run, so shots 1, 9 and 64 give (mp,0,0),
\* (mp,1,0) and (mp,7,7).
C12_OneRowPerFile ==
    (transition_matrix.kind # "none" /\ FiveTokenNames) =>
        /\ transition_matrix.kind = "matrix"
        /\ Len(transition_matrix.value) = Len(test_filepaths)
        /\ \A k \in 1..Len(test_filepaths) :
              LET s == test_filepaths[k][NameTokens].stem
                  row == transition_matrix.value[k]
              IN /\ row = <<RunsBefore(k), (s - 1) \div 8, (s - 1) % 8>>
                 /\ s = 1 => <<row[2], row[3]>> = <<0, 0>>
                 /\ s = 9 => <<row[2], row[3]>> = <<1, 0>>
                 /\ s = 64 => <<row[2], row[3]>> = <<7, 7>>

C12_Witness ==
    /\ transition_matrix.kind = "matrix"
    /\ Len(test_filepaths) = 3
    /\ RunsBefore(3) = 0
    /\ [k \in 1..3 |-> test_filepaths[k][NameTokens].stem] = <<1, 9, 64>>

\* C13: the files are grouped into maximal blocks of consecutive files with
\* the same (mineral ID, measure point) pair, numbered 0, 1, 2, ... in order
\* of appearance: the index column starts at 0, stays the same inside a
\* block and grows by exactly 1 at each block boundary, whatever the numeric
\* measure point is; a pair whose files are not contiguous gets one index
\* per block and no error is raised.
C13_BlocksNumberedInOrder ==
    (transition_matrix.kind # "none" /\ FiveTokenNames) =>
        /\ transition_matrix.kind = "matrix"
        /\ Len(test_filepaths) > 0 => transition_matrix.value[1][1] = 0
        /\ \A k \in 1..(Len(test_filepaths) - 1) :
              LET a == test_filepaths[k]
                  b == test_filepaths[k + 1]
                  step == transition_matrix.value[k + 1][1]
                              - transition_matrix.value[k][1]
              IN IF a[1] = b[1] /\ a[4] = b[4] THEN step = 0 ELSE step = 1

\* a pair that comes back after another pair, with a larger measure point
\* numbered before a smaller one
C13_Witness ==
    /\ transition_matrix.kind = "matrix"
    /\ Len(test_filepaths) = 3
    /\ test_filepaths[1][1] = test_filepaths[3][1]
    /\ test_filepaths[1][4] = test_filepaths[3][4]
    /\ test_filepaths[2][4] < test_filepaths[1][4]
    /\ [k \in 1..3 |-> transition_matrix.value[k][1]] = <<0, 1, 2>>

\* ---------------------------------------------------------------------
\* __get_labels (utils.py 83-95) and the file names it reads
\* ---------------------------------------------------------------------
MaxField == 1
MaxNames == 2

NameFields ==
    [mineral : 0..MaxField, class : 0..MaxField, subgroup : 0..MaxField,
     point : {1}, shot : {1}]

\* csvtonumpy.py 21-25 cuts the class out of f[-21:-18], the subgroup out of
\* f[-17:-14] and the mineral ID out of f[-26:-22] of
\* IIII_CCC_SSS_MMM_NNNNN.csv: the tokens are id, class, subgroup, measure
\* point, shot
RepositoryName(f) ==
    <<f.mineral, f.class, f.subgroup, f.point,
      [stem |-> f.shot, ext |-> ".npy"]>>

\* the convention {mineral-id}_{subgroup}_{class}_{measure-point}_{config}_{shot}
ClaimedName(f) ==
    <<f.mineral, f.subgroup, f.class, f.point, 0,
      [stem |-> f.shot, ext |-> ".npy"]>>

FileName(f, lay) ==
    IF lay = "repository" THEN RepositoryName(f) ELSE ClaimedName(f)

\* list[k] of python: a negative k counts from the end, anything outside
\* -len..len-1 raises IndexError
ListItem(list, k) ==
    IF k >= 0 /\ k < Len(list) THEN [kind |-> "item", value |-> list[k + 1]]
    ELSE IF k < 0 /\ k >= -Len(list)
         THEN [kind |-> "item", value |-> list[Len(list) + k + 1]]
    ELSE [kind |-> "error", raised |-> "IndexError"]

target_indicesInOrder == <<0, 1, 2>>

\* line 94
target_indices == <<1, 2, 0>>

\* line 95: the comprehension evaluates target_indices[targets] once per
\* file, so an empty list of files never indexes
get_labels(names, tg) ==
    LET position == ListItem(target_indices, tg)
    IN IF Len(names) = 0 THEN [kind |-> "labels", value |-> <<>>]
       ELSE IF position.kind = "error" THEN position
       ELSE [kind |-> "labels",
             value |-> [k \in 1..Len(names) |->
                           ListItem(names[k], position.value).value]]

GetLabels ==
    /\ extracted.kind = "none"
    /\ extracted' = get_labels([k \in 1..Len(name_fields) |->
                                   FileName(name_fields[k], layout)], targets)
    /\ UNCHANGED <<genVars, labelVars, prepVars,
                   rowVars, mixVars, gridVars,
                   name_fields, layout, targets, callVars, normVars, pairVars>>

NameInit ==
    /\ name_fields \in SeqsUpTo(NameFields, MaxNames)
    /\ layout \in {"repository", "claimed"}
    /\ targets \in 0..2
    /\ extracted = [kind |-> "none"]
    /\ GenUnused /\ LabelUnused /\ PrepUnused /\ RowUnused /\ MixUnused
    /\ GridUnused /\ CallUnused /\ NormUnused /\ PairUnused

NameNext == GetLabels

SpecNames == NameInit /\ [][NameNext]_vars

\* the field of a file that a classification target asks for
TargetField(f, tg) ==
    IF tg = 0 THEN f.class ELSE IF tg = 1 THEN f.subgroup ELSE f.mineral

ExtractsTargetField ==
    /\ extracted.kind = "labels"
    /\ extracted.value = [k \in 1..Len(name_fields) |->
                             TargetField(name_fields[k], targets)]

\* C14 as stated: from names laid out as
\* {mineral-id}_{subgroup}_{class}_{measure-point}_{config}_{shot}, label
\* extraction returns the class ID for target 0, the subgroup ID for target 1
\* and the mineral ID for target 2.
C14_ClaimedLayoutLabels ==
    (extracted.kind # "none" /\ layout = "claimed") => ExtractsTargetField

\* C14, amended: from names laid out as
\* {mineral-id}_{class}_{subgroup}_{measure-point}_{shot}, the layout the
\* repository writes, label extraction returns the class ID for target 0,
\* the subgroup ID for target 1 and the mineral ID for target 2, from the
\* file name alone.
C14_RepositoryLayoutLabels ==
    (extracted.kind # "none" /\ layout = "repository") => ExtractsTargetField

C14_Witness ==
    /\ extracted.kind = "labels"
    /\ layout = "repository"
    /\ targets = 0
    /\ Len(name_fields) = 2
    /\ name_fields[1].class # name_fields[1].subgroup
    /\ name_fields[2].class # name_fields[2].mineral

\* ---------------------------------------------------------------------
\* The calls of set_classification_targets (utils.py 64-80), prepare_dataset
\* (358-431) and prepare_mixture_dataset (451-537), from their arguments on.
\* config/datasets.yaml is the set of the keys it holds; train_data,
\* test_data and synth_data are what glob finds under the configured paths.
\* The normalisation argument keeps its default.
\* ---------------------------------------------------------------------
MaxCallFiles == 1

Selectors == (-4)..3
DatasetChoices == (-1)..3

ConfigKeys ==
    {"synth_path", "synth_str", "synth_name",
     "hh_12_path", "hh_12_str", "hh_12_name",
     "hh_all_path", "hh_all_str", "hh_all_name"}

\* lines 72-80
set_classification_targets(choice) ==
    IF choice = 0 THEN [kind |-> "target", value |-> <<choice, "mineral classes">>]
    ELSE IF choice = 1
    THEN [kind |-> "target", value |-> <<choice, "mineral subgroups">>]
    ELSE IF choice = 2 THEN [kind |-> "target", value |-> <<choice, "minerals">>]
    ELSE [kind |-> "error", raised |-> "ValueError"]

\* lines 377-388: the keys prepare_dataset reads, in the order it reads them
DatasetKeys(choice) ==
    IF choice = 0 THEN <<"synth_path", "synth_str", "synth_name">>
    ELSE IF choice = 1 THEN <<"hh_12_path", "hh_12_str", "hh_12_name">>
    ELSE IF choice = 2 THEN <<"hh_all_path", "hh_all_str", "hh_all_name">>
    ELSE <<>>

\* lines 468-469: the keys prepare_mixture_dataset reads
MixtureKeys == <<"hh_12_path", "synth_path">>

FirstMissingIgnored(keys, configs) == 0

\* dataset_configs[key] for each key in turn: the position of the first key
\* that raises KeyError, 0 when every key is there
FirstMissing(keys, configs) ==
    IF \A k \in 1..Len(keys) : keys[k] \in configs THEN 0
    ELSE CHOOSE k \in 1..Len(keys) :
             /\ keys[k] \notin configs
             /\ \A m \in 1..(k - 1) : keys[m] \in configs

\* lines 391-393 and 470-472: print the key, sys.exit(1)
ExitMissingKey(call, key) ==
    [call |-> call, kind |-> "exit", status |-> 1, reported |-> key,
     listed |-> FALSE, created |-> FALSE]

\* an exception leaves the call: listed once glob has run (lines 402-403,
\* 474-480), created once a generator has been constructed (lines 416-418,
\* 523)
CallRaises(call, raised, listed, created) ==
    [call |-> call, kind |-> "error", raised |-> raised, listed |-> listed,
     created |-> created]

\* the returned dict is built entry by entry: the KeyError of
\* transform_labels (lines 419-420, 526-527) comes after the generators of
\* lines 416-418 and 523 have been constructed, the ValueError of
\* compute_class_weight (lines 410, 517) before
RaisedInReturn(d) == d.raised = "KeyError"

\* lines 374-431, the whole call
PrepareDatasetCall(choice, tg, configs, train, test, b) ==
    LET keys == DatasetKeys(choice)
        missing == FirstMissing(keys, configs)
        train_l == get_labels(train, tg)
        test_l == get_labels(test, tg)
        d == prepare_dataset(train_l.value, test_l.value, b)
    IN  IF choice \notin {0, 1, 2}
        THEN CallRaises("prepare_dataset", "ValueError", FALSE, FALSE)
        ELSE IF missing # 0 THEN ExitMissingKey("prepare_dataset", keys[missing])
        ELSE IF train_l.kind = "error"
        THEN CallRaises("prepare_dataset", train_l.raised, TRUE, FALSE)
        ELSE IF test_l.kind = "error"
        THEN CallRaises("prepare_dataset", test_l.raised, TRUE, FALSE)
        ELSE IF d.kind = "error"
        THEN CallRaises("prepare_dataset", d.raised, TRUE, RaisedInReturn(d))
        ELSE [call |-> "prepare_dataset", kind |-> "descriptor",
              listed |-> TRUE, created |-> TRUE, value |-> d,
              labels |-> train_l.value]

\* lines 465-537, the whole call
PrepareMixtureDatasetCall(tg, configs, train_hh, test_hh, train_syn, test_syn, pct, b) ==
    LET missing == FirstMissing(MixtureKeys, configs)
        hh_l == get_labels(train_hh, tg)
        hh_test_l == get_labels(test_hh, tg)
        syn_l == get_labels(train_syn, tg)
        syn_test_l == get_labels(test_syn, tg)
        d == prepare_mixture_dataset(hh_l.value, syn_l.value, hh_test_l.value,
                                     pct, b)
    IN  IF missing # 0
        THEN ExitMissingKey("prepare_mixture_dataset", MixtureKeys[missing])
        ELSE IF hh_l.kind = "error"
        THEN CallRaises("prepare_mixture_dataset", hh_l.raised, TRUE, FALSE)
        ELSE IF hh_test_l.kind = "error"
        THEN CallRaises("prepare_mixture_dataset", hh_test_l.raised, TRUE, FALSE)
        ELSE IF syn_l.kind = "error"
        THEN CallRaises("prepare_mixture_dataset", syn_l.raised, TRUE, FALSE)
        ELSE IF syn_test_l.kind = "error"
        THEN CallRaises("prepare_mixture_dataset", syn_test_l.raised, TRUE, FALSE)
        ELSE IF d.kind = "error"
        THEN CallRaises("prepare_mixture_dataset", d.raised, TRUE, RaisedInReturn(d))
        ELSE [call |-> "prepare_mixture_dataset", kind |-> "descriptor",
              listed |-> TRUE, created |-> TRUE, value |-> d,
              labels |-> hh_l.value]

callArgs == <<cls_choice, dataset_choice, target, dataset_configs,
              train_data, test_data, synth_data>>

SetClassificationTargets ==
    /\ chosen.kind = "none"
    /\ prepared.kind = "none"
    /\ chosen' = set_classification_targets(cls_choice)
    /\ UNCHANGED <<genVars, labelVars, prepVars,
                   rowVars, mixVars, gridVars, nameVars,
                   callArgs, prepared, normVars, pairVars>>

CallPrepareDataset ==
    /\ prepared.kind = "none"
    /\ prepared' = PrepareDatasetCall(dataset_choice, target, dataset_configs,
                                      train_data, test_data, batch_size)
    /\ UNCHANGED <<genVars, labelVars, prepVars,
                   rowVars, mixVars, gridVars, nameVars,
                   callArgs, chosen, normVars, pairVars>>

\* the synthetic test split, of which only the labels are read, is empty;
\* mixture_pct is 1.0
CallPrepareMixtureDataset ==
    /\ prepared.kind = "none"
    /\ prepared' = PrepareMixtureDatasetCall(target, dataset_configs,
                       train_data, test_data, synth_data, <<>>,
                       PctUnit, batch_size)
    /\ UNCHANGED <<genVars, labelVars, prepVars,
                   rowVars, mixVars, gridVars, nameVars,
                   callArgs, chosen, normVars, pairVars>>

\* three files whose class, subgroup and mineral ID all differ
CallNames ==
    {RepositoryName([mineral |-> 0, class |-> 1, subgroup |-> 2,
                     point |-> 1, shot |-> 1]),
     RepositoryName([mineral |-> 1, class |-> 2, subgroup |-> 0,
                     point |-> 1, shot |-> 1]),
     RepositoryName([mineral |-> 2, class |-> 0, subgroup |-> 1,
                     point |-> 1, shot |-> 1])}

OneCallName == CHOOSE n \in CallNames : n[1] = 0

\* the configuration file misses at most two keys; the training split holds
\* at least one file; the same selector goes to set_classification_targets
\* and to the prepare call, as in the scripts
CallInit ==
    /\ cls_choice \in Selectors
    /\ target = cls_choice
    /\ dataset_choice \in DatasetChoices
    /\ dataset_configs \in {ConfigKeys \ {a, b} : a, b \in ConfigKeys}
                              \cup {ConfigKeys}
    /\ train_data \in SeqsUpTo(CallNames, MaxCallFiles) \ {<<>>}
    /\ test_data \in {<<>>, <<OneCallName>>}
    /\ synth_data \in {<<>>, <<OneCallName>>}
    /\ chosen = [kind |-> "none"]
    /\ prepared = [kind |-> "none"]
    /\ GenUnused /\ LabelUnused /\ PrepUnused /\ RowUnused /\ MixUnused
    /\ GridUnused /\ NameUnused /\ NormUnused /\ PairUnused

CallNext ==
    \/ SetClassificationTargets
    \/ CallPrepareDataset
    \/ CallPrepareMixtureDataset

SpecCall == CallInit /\ [][CallNext]_vars

\* every key the call of prepare_dataset reads is in the configuration
DatasetKeysPresent ==
    \A k \in 1..Len(DatasetKeys(dataset_choice)) :
        DatasetKeys(dataset_choice)[k] \in dataset_configs

\* C15: a classification target outside {0, 1, 2} and a dataset choice
\* outside {0, 1, 2} are rejected with an error at call time, by
\* set_classification_targets and by prepare_dataset called directly, and
\* never treated as a valid selector.
C15_InvalidSelectorsRejected ==
    /\ (chosen.kind # "none" /\ cls_choice \notin {0, 1, 2}) =>
           chosen.kind = "error"
    /\ (/\ prepared.kind # "none"
        /\ prepared.call = "prepare_dataset"
        /\ DatasetKeysPresent
        /\ (target \notin {0, 1, 2} \/ dataset_choice \notin {0, 1, 2})) =>
           prepared.kind = "error"

\* the keys the finished call read, in the order it read them
KeysRead ==
    IF prepared.call = "prepare_dataset" THEN DatasetKeys(dataset_choice)
    ELSE MixtureKeys

\* C16: when a configuration key that prepare_dataset or
\* prepare_mixture_dataset needs for the selected data source is absent, the
\* call reports the first such key and terminates the process with exit
\* status 1, before any file is listed and before a generator or a
\* descriptor is created.
C16_MissingKeyExits ==
    (/\ prepared.kind # "none"
     /\ \E k \in 1..Len(KeysRead) : KeysRead[k] \notin dataset_configs) =>
        /\ prepared.kind = "exit"
        /\ prepared.status = 1
        /\ prepared.reported \in Range(KeysRead) \ dataset_configs
        /\ \A k \in 1..Len(KeysRead) :
              KeysRead[k] = prepared.reported =>
                  \A m \in 1..(k - 1) : KeysRead[m] \in dataset_configs
        /\ ~prepared.listed
        /\ ~prepared.created

\* both calls have met a missing key, one of them with two keys missing
C16_Witness ==
    /\ prepared.kind = "exit"
    /\ prepared.call = "prepare_dataset"
    /\ dataset_choice = 2
    /\ dataset_configs = ConfigKeys \ {"hh_all_str", "hh_all_name"}
    /\ prepared.reported = "hh_all_str"

C16_WitnessMixture ==
    /\ prepared.kind = "exit"
    /\ prepared.call = "prepare_mixture_dataset"
    /\ prepared.reported = "synth_path"

\* ---------------------------------------------------------------------
\* __data_generator over a list with files that np.load cannot read
\* ---------------------------------------------------------------------
LoadInit ==
    /\ \E n \in 1..MaxFiles : file_list = [k \in 1..n |-> k]
    /\ bad_files \in (SUBSET Range(file_list)) \ {{}}
    /\ batch_size \in 1..MaxBatch
    /\ shuffle_and_repeat \in BOOLEAN
    /\ shuffle_and_repeat => Len(file_list) <= MaxShuffled
    /\ files = file_list
    /\ i = 0
    /\ run = TRUE
    /\ gen_state = "created"
    /\ outcome = "none"
    /\ batches = <<>>
    /\ requests = 0
    /\ LabelUnused /\ PrepUnused /\ MixUnused /\ MoreUnused

LoadNext == Start \/ Resume \/ RequestClosed

SpecLoad == LoadInit /\ [][LoadNext]_vars

\* the position, in the order of the pass, of the first file that fails
FirstBad ==
    CHOOSE k \in 1..Len(files) :
        /\ files[k] \in bad_files
        /\ \A m \in 1..(k - 1) : files[m] \notin bad_files

\* the request during which the first bad file is loaded
FailingRequest == (FirstBad - 1) \div batch_size + 1

\* C17: when loading a file fails while a batch is being filled, the error
\* reaches the consumer on that very request, with the generator still
\* pointing at the file (no retry, no skip); only the full batches in front
\* of it have been yielded, never the partly filled one; and every later
\* request ends without a batch, in both modes.
C17_LoadFailurePropagates ==
    (gen_state # "created" /\ bad_files # {}) =>
        /\ \A k \in 1..Len(batches) : Len(batches[k]) = batch_size
        /\ Concat(batches) =
               SubSeq(files, 1,
                      batch_size * Min(requests, FailingRequest - 1))
        /\ requests = FailingRequest =>
               /\ outcome = "LoadError"
               /\ gen_state = "closed"
               /\ i = FirstBad - 1
        /\ requests > FailingRequest =>
               /\ outcome = "StopIteration"
               /\ gen_state = "closed"

\* a batch was yielded, the next one was partly filled when the load
\* failed, and the consumer asked again afterwards
C17_Witness ==
    /\ gen_state = "closed"
    /\ bad_files # {}
    /\ Len(batches) >= 1
    /\ (FirstBad - 1) % batch_size # 0
    /\ requests > FailingRequest
    /\ ~shuffle_and_repeat

\* the same in repeating mode, where the failing file opens a batch
C17_WitnessRepeating ==
    /\ gen_state = "closed"
    /\ bad_files # {}
    /\ Len(batches) >= 1
    /\ requests > FailingRequest
    /\ shuffle_and_repeat

\* ---------------------------------------------------------------------
\* normalise_minmax, normalise_snv, no_normalisation (utils.py 126-160)
\*
\* A sample is a list of integer intensities. A quotient is kept as the
\* pair of its numerator and denominator; a quotient by a standard
\* deviation keeps the square of the denominator.
\* ---------------------------------------------------------------------
MaxSample == 3
MaxIntensity == 2

Intensities == (-1)..MaxIntensity

RECURSIVE Sum(_)
Sum(s) == IF s = <<>> THEN 0 ELSE Head(s) + Sum(Tail(s))

\* np.max of a non-empty array
np_max(s) == Max(Range(s))

NoneReturned == [kind |-> "None", printed |-> <<"Sample is empty">>]

EmptyArrayError == [kind |-> "error", raised |-> "ValueError"]

PositiveGuardNonNegative(s) == np_max(s) >= 0

\* lines 134 and 147: if np.max(sample) > 0
PositiveGuard(s) == np_max(s) > 0

\* lines 126-137
normalise_minmax(s) ==
    IF s = <<>> THEN EmptyArrayError
    ELSE IF PositiveGuard(s)
    THEN [kind |-> "array", printed |-> <<>>,
          value |-> [k \in 1..Len(s) |-> [num |-> s[k], den |-> np_max(s)]]]
    ELSE NoneReturned

\* lines 140-150: (x - mean) / std is (n*x - S) / sqrt(n*Q - S*S) with S the
\* sum and Q the sum of the squares; den2 = 0 is numpy's division by zero,
\* which gives nan or inf and a warning
normalise_snv(s) ==
    LET n == Len(s)
        S == Sum(s)
        Q == Sum([k \in 1..n |-> s[k] * s[k]])
    IN  IF s = <<>> THEN EmptyArrayError
        ELSE IF PositiveGuard(s)
        THEN [kind |-> "array", printed |-> <<>>,
              value |-> [k \in 1..n |->
                            [num |-> n * s[k] - S, den2 |-> n * Q - S * S]]]
        ELSE NoneReturned

\* lines 153-160
no_normalisation(s) == [kind |-> "array", printed |-> <<>>, value |-> s]

\* lines 395-400: the function a normalisation choice stands for
norm_function(choice, s) ==
    IF choice = 0 THEN no_normalisation(s)
    ELSE IF choice = 1 THEN normalise_snv(s)
    ELSE normalise_minmax(s)

Normalise ==
    /\ normalised.kind = "unset"
    /\ normalised' = norm_function(normalisation, sample)
    /\ UNCHANGED <<genVars, labelVars, prepVars,
                   rowVars, mixVars, gridVars, nameVars,
                   callVars, sample, normalisation, spectrum, corrected,
                   pairVars>>

NormInit ==
    /\ sample \in SeqsUpTo(Intensities, MaxSample)
    /\ normalisation \in {0, 1, 2}
    /\ normalised = [kind |-> "unset"]
    /\ BaselineUnused
    /\ GenUnused /\ LabelUnused /\ PrepUnused /\ RowUnused /\ MixUnused
    /\ GridUnused /\ NameUnused /\ CallUnused /\ PairUnused

NormNext == Normalise

SpecNorm == NormInit /\ [][NormNext]_vars

\* C18: for a sample whose maximum is <= 0, normalise_minmax and
\* normalise_snv divide nothing, print 'Sample is empty' and return no value
\* rather than raise; for a sample whose maximum m is > 0, normalise_minmax
\* returns every entry divided by m, so that the largest output is 1.
C18_NormaliseGuardsEmptySample ==
    (normalised.kind # "unset" /\ sample # <<>> /\ normalisation \in {1, 2}) =>
        LET m == Max(Range(sample)) IN
        /\ m <= 0 => normalised = [kind |-> "None",
                                   printed |-> <<"Sample is empty">>]
        /\ (m > 0 /\ normalisation = 2) =>
              /\ normalised.kind = "array"
              /\ normalised.printed = <<>>
              /\ Len(normalised.value) = Len(sample)
              /\ \A k \in 1..Len(sample) :
                    /\ normalised.value[k].den = m
                    /\ normalised.value[k].num = sample[k]
                    /\ normalised.value[k].num <= normalised.value[k].den
              /\ \E k \in 1..Len(sample) :
                    normalised.value[k].num = normalised.value[k].den

\* an all-zero sample through minmax
C18_Witness ==
    /\ normalised.kind = "None"
    /\ normalisation = 2
    /\ sample = <<0, 0>>

\* a sample with negative entries only through snv
C18_WitnessSnv ==
    /\ normalised.kind = "None"
    /\ normalisation = 1
    /\ sample = <<-1, -1>>

\* a sample with a positive maximum other than 1 through minmax
C18_WitnessPositive ==
    /\ normalised.kind = "array"
    /\ normalisation = 2
    /\ sample = <<2, -1, 1>>

\* ---------------------------------------------------------------------
\* baseline_als_optimized (utils.py 163-186): the warning of lines 172-173,
\* the clip of line 174 and the difference matrix of lines 175-176. A
\* spectrum is a list of <<wavelength, intensity>> rows. Of the
\* least-squares iterations of lines 177-186 only the fact that they return
\* an array is kept, not its values.
\* ---------------------------------------------------------------------
MaxSpectrum == 3

WaveLengths == {-1, 1}
SpectrumRows == WaveLengths \X ((-1)..1)

\* np.max(y) of the two-column array: the largest of all its entries,
\* wavelengths included
np_max2(rows) == Max({rows[k][c] : k \in 1..Len(rows), c \in {1, 2}})

\* line 172: if np.max(y) < 0
NoPositiveValues(rows) == np_max2(rows) < 0

\* line 174: y[:,1].clip(min=0)
ClipIntensities(rows) ==
    [k \in 1..Len(rows) |-> IF rows[k][2] < 0 THEN 0 ELSE rows[k][2]]

\* line 176: the offsets of the three diagonals
DiagOffsets == {0, -1, -2}

\* scipy.sparse.diags: the length of the diagonal at an offset of an m x n
\* matrix
DiagLength(m, n, offset) == Min(Min(m + offset, n - offset), Min(m, n))

\* line 176: sparse.diags([1,-2,1], [0,-1,-2], shape=(L, L-2)) builds the
\* matrix unless a diagonal would have a negative length (ValueError)
DiagsBuilds(L) == \A o \in DiagOffsets : DiagLength(L, L - 2, o) >= 0

\* lines 172-186: what is warned, what goes into the iterations, and
\* whether the call returns
baseline_als_optimized(rows) ==
    LET warned == IF NoPositiveValues(rows)
                  THEN <<"LIBS shot is empty or invalid, no positive values">>
                  ELSE <<>>
    IN  IF DiagsBuilds(Len(rows))
        THEN [kind |-> "corrected", warnings |-> warned,
              clipped |-> ClipIntensities(rows)]
        ELSE [kind |-> "error", raised |-> "ValueError", warnings |-> warned]

BaselineAls ==
    /\ corrected.kind = "unset"
    /\ corrected' = baseline_als_optimized(spectrum)
    /\ UNCHANGED <<genVars, labelVars, prepVars,
                   rowVars, mixVars, gridVars, nameVars,
                   callVars, sample, normalisation, normalised, spectrum,
                   pairVars>>

BaselineInit ==
    /\ spectrum \in SeqsUpTo(SpectrumRows, MaxSpectrum) \ {<<>>}
    /\ corrected = [kind |-> "unset"]
    /\ NormaliseUnused
    /\ GenUnused /\ LabelUnused /\ PrepUnused /\ RowUnused /\ MixUnused
    /\ GridUnused /\ NameUnused /\ CallUnused /\ PairUnused

BaselineNext == BaselineAls

SpecBaseline == BaselineInit /\ [][BaselineNext]_vars

\* C19: baseline_als_optimized emits its 'no positive values' warning for
\* every input whose intensity column holds no positive value, and goes on
\* to a result.
C19_WarnsWithoutPositiveIntensity ==
    (/\ corrected.kind # "unset"
     /\ \A k \in 1..Len(spectrum) : spectrum[k][2] <= 0) =>
        /\ corrected.kind = "corrected"
        /\ Len(corrected.warnings) = 1

\* ---------------------------------------------------------------------
\* The generators of prepare_dataset (utils.py 416-418) side by side.
\*
\* heap maps a list object to its contents: the lists train_data and
\* test_data of a first call, the list test_data of a second call, and, per
\* generator, the copy that shuffle() returns and the generator's local name
\* files is rebound to. gens maps each generator to its frame: the list
\* object its name files points to, i, run, and whether it has been started
\* or has ended.
\* ---------------------------------------------------------------------
MaxPairFiles == 2
MaxPairBatch == 2

GenNames == {"train_data", "eval_data", "test_data", "test_data_2"}
TrainList == <<"data", "train">>
TestList == <<"data", "test">>
TestList2 == <<"data", "test_2">>
CallerLists == {TrainList, TestList, TestList2}
OwnList(g) == <<"files", g>>

\* lines 416-418: the list each generator is created over; eval_data and
\* test_data get the same list object
ListOf(g) ==
    IF g = "train_data" THEN TrainList
    ELSE IF g = "test_data_2" THEN TestList2
    ELSE TestList

ShuffleInPlace(g, list) == list

\* lines 330 and 341: files = shuffle(files) binds the generator's own name
\* to the copy that sklearn's shuffle returns
ShuffleTarget(g, list) == OwnList(g)

\* what the next request to generator g can do: the outcomes of ForLoop, or
\* StopIteration
GenOutcomes(g) ==
    LET s == gens[g]
        fs == heap[s.list]
        stop == {[files |-> fs, i |-> s.i, run |-> s.run, samples |-> <<>>,
                  raised |-> "StopIteration"]}
    IN  IF s.gen_state = "closed" THEN stop
        ELSE IF s.gen_state = "created"
        THEN UNION {ForLoop(f0, 0, 0, Zeros(batch_size), s.rep, batch_size) :
                        f0 \in InitialFiles(fs, s.rep)}
        ELSE IF ~s.run THEN stop
        ELSE ForLoop(fs, s.i, 0, Zeros(batch_size), s.rep, batch_size)

\* next(g)
Request(g) ==
    \E o \in GenOutcomes(g) :
        LET s == gens[g]
            list == IF s.rep THEN ShuffleTarget(g, s.list) ELSE s.list
        IN  /\ heap' = IF s.rep THEN [heap EXCEPT ![list] = o.files] ELSE heap
            /\ gens' = [gens EXCEPT ![g] =
                           [list |-> list, rep |-> s.rep, i |-> o.i,
                            run |-> o.run,
                            gen_state |-> IF o.raised = "none"
                                          THEN "suspended" ELSE "closed"]]
            /\ UNCHANGED <<genVars, labelVars, prepVars,
                   rowVars, mixVars, gridVars,
                           nameVars, callVars, normVars>>

\* two calls of prepare_dataset on the same directories: the second glob
\* returns a new list with the same files
PairInit ==
    /\ \E n \in 1..MaxPairFiles, m \in 0..MaxPairFiles :
          heap = [r \in CallerLists \cup {OwnList(g) : g \in GenNames} |->
                     IF r = TrainList THEN [k \in 1..n |-> k]
                     ELSE IF r \in {TestList, TestList2} THEN [k \in 1..m |-> n + k]
                     ELSE <<>>]
    /\ \E rep \in BOOLEAN :
          gens = [g \in GenNames |->
                     [list |-> ListOf(g), rep |-> (g = "train_data" /\ rep),
                      i |-> 0, run |-> TRUE, gen_state |-> "created"]]
    /\ batch_size \in 1..MaxPairBatch
    /\ GenIdle /\ LabelUnused /\ PrepUnused /\ RowUnused /\ MixUnused
    /\ GridUnused /\ NameUnused /\ CallUnused /\ NormUnused

PairNext == \E g \in GenNames : Request(g)

SpecPair == PairInit /\ [][PairNext]_vars

\* the batches, or the end, that the next request to generator h can give
NextOutcomes(h) ==
    {[samples |-> o.samples, raised |-> o.raised] : o \in GenOutcomes(h)}

MaxPartialFiles == 3
MaxInstances == 2

Constructors == {"eval_data", "test_data"}

SharedFrame(made) ==
    IF made = <<>> THEN [i |-> 0, run |-> TRUE, gen_state |-> "created"]
    ELSE [i |-> made[1].i, run |-> made[1].run, gen_state |-> made[1].gen_state]

\* calling a partial calls __data_generator: a new generator object whose
\* body has not started (lines 328-330 run on the first request)
FreshFrame(made) == [i |-> 0, run |-> TRUE, gen_state |-> "created"]

\* eval_data() or test_data()
CallConstructor(c) ==
    /\ Len(gens) < MaxInstances
    /\ LET f == FreshFrame(gens)
       IN gens' = Append(gens, [ctor |-> c, list |-> TestList, rep |-> FALSE,
                                i |-> f.i, run |-> f.run,
                                gen_state |-> f.gen_state, yielded |-> <<>>])
    /\ UNCHANGED <<heap, genVars, labelVars, prepVars,
                   rowVars, mixVars, gridVars,
                   nameVars, callVars, normVars>>

\* next() on the k-th generator made
RequestInstance(k) ==
    /\ k \in 1..Len(gens)
    /\ gens[k].gen_state # "closed"
    /\ \E o \in GenOutcomes(k) :
          gens' = [gens EXCEPT ![k] =
                      [ctor |-> gens[k].ctor, list |-> gens[k].list,
                       rep |-> gens[k].rep, i |-> o.i, run |-> o.run,
                       gen_state |-> IF o.raised = "none"
                                     THEN "suspended" ELSE "closed",
                       yielded |-> IF o.raised = "none"
                                   THEN Append(gens[k].yielded, o.samples)
                                   ELSE gens[k].yielded]]
    /\ UNCHANGED <<heap, genVars, labelVars, prepVars,
                   rowVars, mixVars, gridVars,
                   nameVars, callVars, normVars>>

PartialInit ==
    /\ \E m \in 0..MaxPartialFiles :
          heap = [r \in {TestList} |-> [k \in 1..m |-> k]]
    /\ gens = <<>>
    /\ batch_size \in 1..MaxBatch
    /\ GenIdle /\ LabelUnused /\ PrepUnused /\ RowUnused /\ MixUnused
    /\ GridUnused /\ NameUnused /\ CallUnused /\ NormUnused

PartialNext ==
    \/ \E c \in Constructors : CallConstructor(c)
    \/ \E k \in 1..MaxInstances : RequestInstance(k)

SpecPartial == PartialInit /\ [][PartialNext]_vars

IsPrefix(s, t) == Len(s) <= Len(t) /\ s = SubSeq(t, 1, Len(s))

\* C21: eval_data and test_data of a mixture descriptor are constructors:
\* every call makes a new single-pass generator that starts at the first
\* handheld test file, and any two of them yield the same batch sequence,
\* however far the generators made earlier have been consumed.
C21_ConstructorsGiveFreshGenerators ==
    \A a, b \in 1..Len(gens) :
        /\ ~gens[a].rep
        /\ (gens[a].yielded # <<>> /\ heap[TestList] # <<>>) =>
               gens[a].yielded[1][1] = heap[TestList][1]
        /\ IsPrefix(gens[a].yielded, gens[b].yielded)
               \/ IsPrefix(gens[b].yielded, gens[a].yielded)
        /\ (gens[a].gen_state = "closed" /\ gens[b].gen_state = "closed") =>
               gens[a].yielded = gens[b].yielded

\* two generators, one from each constructor, have run to their end over
\* the same test list and yielded the same batches
C21_Witness ==
    /\ Len(gens) = 2
    /\ gens[1].ctor = "eval_data"
    /\ gens[2].ctor = "test_data"
    /\ gens[1].gen_state = "closed"
    /\ gens[2].gen_state = "closed"
    /\ Len(gens[1].yielded) >= 2
    /\ Len(heap[TestList]) = MaxPartialFiles
    /\ gens[2].yielded = gens[1].yielded

\* C22: single-pass mode, for every file count n >= 0 and batch size
\* b >= 1, multiples of b included: no yielded batch has zero rows, and the
\* generator has yielded ceil(n / b) batches when it terminates.
C22_SinglePassBatchCount ==
    ~shuffle_and_repeat =>
        /\ \A k \in 1..Len(batches) : Len(batches[k]) > 0
        /\ gen_state = "closed" => Len(batches) = Ceil(NumFiles, batch_size)

\* line 426: train_steps
TrainSteps == Ceil(NumFiles, batch_size)

\* the files in the batches of epoch e, which are batches e*train_steps ..
\* (e+1)*train_steps - 1 counted from 0
EpochFiles(e) ==
    {batches[k][r] : k \in (e * TrainSteps + 1)..((e + 1) * TrainSteps),
                     r \in 1..batch_size}

EpochComplete(e) == (e + 1) * TrainSteps <= Len(batches)

\* C23 as stated: in repeating mode with n >= 1 files, the batches of every
\* epoch e >= 0 together contain every training file at least once.
C23_EveryEpochCoversAllFiles ==
    (shuffle_and_repeat /\ NumFiles >= 1) =>
        \A e \in 0..MaxRows :
            EpochComplete(e) => Range(file_list) \subseteq EpochFiles(e)

\* the rows of an epoch, train_steps * batch_size of them
EpochRows == TrainSteps * batch_size

\* how many rows of the pass under way have been emitted when epoch e starts
EpochOffset(e) == (e * EpochRows) % NumFiles

\* the rows of epoch e hold a whole pass: the epoch starts with a pass, or
\* it reaches the end of the pass that follows the one under way
EpochHoldsPass(e) ==
    \/ EpochOffset(e) = 0
    \/ EpochRows >= 2 * NumFiles - EpochOffset(e)

\* C23, amended: in repeating mode with n >= 1 files, the batches of an
\* epoch e contain every training file at least once whenever the rows of
\* the epoch hold a whole pass: with W = train_steps * batch_size and
\* s = (e * W) mod n, s = 0 or W >= 2n - s.  This is so for epoch 0, for
\* n = 1 and whenever n is a multiple of batch_size.
C23_EpochsHoldingAPassCoverAllFiles ==
    (shuffle_and_repeat /\ NumFiles >= 1) =>
        /\ EpochHoldsPass(0)
        /\ (NumFiles = 1 \/ NumFiles % batch_size = 0) =>
              \A e \in 0..MaxRows : EpochHoldsPass(e)
        /\ \A e \in 0..MaxRows :
              (EpochComplete(e) /\ EpochHoldsPass(e)) =>
                  Range(file_list) \subseteq EpochFiles(e)

\* epoch 1 of one batch of five rows over three files: it starts two rows
\* into a pass and holds the whole of the next one
C23_Witness ==
    /\ shuffle_and_repeat
    /\ NumFiles = 3
    /\ batch_size = 5
    /\ EpochComplete(1)
    /\ EpochOffset(1) = 2
    /\ EpochHoldsPass(1)
    /\ Range(file_list) \subseteq EpochFiles(1)

\* an epoch whose rows hold no whole pass and leave a file out: three files,
\* epoch 1 of two batches of two rows
C23_LeftOutBatch2 ==
    /\ shuffle_and_repeat
    /\ NumFiles = 3
    /\ batch_size = 2
    /\ EpochComplete(1)
    /\ ~EpochHoldsPass(1)
    /\ ~(Range(file_list) \subseteq EpochFiles(1))

\* the same with epoch 1 of one batch of four rows
C23_LeftOutBatch4 ==
    /\ shuffle_and_repeat
    /\ NumFiles = 3
    /\ batch_size = 4
    /\ EpochComplete(1)
    /\ ~EpochHoldsPass(1)
    /\ ~(Range(file_list) \subseteq EpochFiles(1))

\* with at most three files and ten rows emitted, every complete epoch that
\* holds no whole pass is one of the two above
C23_OnlyTheseHoldNoPass ==
    (shuffle_and_repeat /\ NumFiles >= 1) =>
        \A e \in 0..MaxRows :
            (EpochComplete(e) /\ ~EpochHoldsPass(e)) =>
                (NumFiles = 3 /\ batch_size \in {2, 4} /\ e = 1)

\* ---------------------------------------------------------------------
\* model.evaluate(d['eval_data'], steps=d['test_steps']) and
\* model.predict(d['test_data'], steps=d['test_steps']) (baseline_mlp.py
\* 49-52): the consumer takes test_steps batches from a generator of the
\* descriptor. File k of the test list is the one test_labels[k] was read
\* from.
\* ---------------------------------------------------------------------
\* next() on the eval or test generator, at most test_steps times
TakeBatch ==
    /\ dataset.kind = "descriptor"
    /\ requests < dataset.test_steps
    /\ (Start \/ Resume)

EvalInit ==
    /\ train_labels \in SeqsUpTo(LabelIds, MaxLabels) \ {<<>>}
    /\ test_labels \in SeqsUpTo(LabelIds, MaxQuery)
    /\ batch_size \in 1..MaxBatch
    /\ dataset = [kind |-> "none"]
    /\ file_list = [k \in 1..Len(test_labels) |-> k]
    /\ shuffle_and_repeat = FALSE
    /\ files = file_list
    /\ i = 0
    /\ run = TRUE
    /\ gen_state = "created"
    /\ outcome = "none"
    /\ batches = <<>>
    /\ requests = 0
    /\ bad_files = {}
    /\ LabelUnused /\ MixUnused /\ MoreUnused

EvalNext == PrepareDataset \/ TakeBatch

SpecEval == EvalInit /\ [][EvalNext]_vars

\* the label the generator gives to a row loaded from file f (line 350)
RowLabel(f) ==
    transform_labels([kind |-> "scalar", value |-> test_labels[f]],
                     dataset.test_data.trans_dict)

\* C24: for a descriptor of prepare_dataset, the test_steps batches taken
\* from the fresh eval or test generator hold n_test rows in all, and the
\* k-th of these rows comes from the k-th file of the test list, the file
\* whose remapped label is test_labels[k] of the descriptor.
C24_TestStepsCoverTestSet ==
    dataset.kind = "descriptor" =>
        /\ file_list = dataset.test_data.files
        /\ dataset.eval_data = dataset.test_data
        /\ batch_size = dataset.test_data.batch_size
        /\ shuffle_and_repeat = dataset.test_data.shuffle_and_repeat
        /\ requests = dataset.test_steps =>
              /\ Len(Concat(batches)) = Len(test_labels)
              /\ \A k \in 1..Len(test_labels) :
                    /\ Concat(batches)[k] = file_list[k]
                    /\ RowLabel(Concat(batches)[k]).value =
                           dataset.test_labels[k]

\* two test files with different labels, taken in two batches
C24_Witness ==
    /\ dataset.kind = "descriptor"
    /\ Len(test_labels) = 2
    /\ test_labels[1] # test_labels[2]
    /\ batch_size = 1
    /\ requests = dataset.test_steps
    /\ Len(batches) = 2

\* ---------------------------------------------------------------------
\* __data_generator (utils.py 328-355) with both matrices of a batch.
\*
\* File f holds the label file_labels[f] and the sample file_samples[f].
\* A row of samples or labels records the file it was filled from (0 for a
\* row of np.zeros that was never filled) next to its value. The generator
\* is created as prepare_dataset creates it over these files (lines 408-409,
\* 416): trans_dict and num_classes come from their labels.
\* ---------------------------------------------------------------------
MaxRowRequests == 3

RowLabelIds == {0, 2}
RowSamples == {<<0, 0>>, <<1, 2>>, <<-1, 0>>}
RowFileCounts == 0..2
RowBatchSizes == 1..3

RowTransDict == get_transformation_dict(file_labels, "dict")
RowNumClasses == Len(np_unique(file_labels))

\* lines 333-334: np.zeros
ZeroRows(b) == [k \in 1..b |-> [file |-> 0, value |-> "zeros"]]

to_categoricalOneBased(label, num_classes) ==
    [c \in 1..num_classes |-> IF c = label THEN 1 ELSE 0]

\* keras to_categorical(label, num_classes): the one-hot row of a label
to_categorical(label, num_classes) ==
    [c \in 1..num_classes |-> IF c - 1 = label THEN 1 ELSE 0]

\* line 351: the label row of a file with the remapped label l
LabelRow(l) == IF categorical THEN to_categorical(l, RowNumClasses) ELSE l

\* line 353: samples[j] = norm_function(...); numpy stores None, which the
\* normalisers return for an empty sample, as nan
SampleRow(r) == IF r.kind = "None" THEN "nan" ELSE r.value

RECURSIVE RowLoop(_, _, _, _, _, _, _)
RECURSIVE RowLoad(_, _, _, _, _, _, _)
\* lines 336-355 with samples and labels
RowLoop(fs, ii, j, samples, lbls, rep, b) ==
    IF j >= b
    THEN {[files |-> fs, i |-> ii, run |-> TRUE, samples |-> samples,
           labels |-> lbls, raised |-> "none"]}
    ELSE IF Exhausted(ii, fs)
         THEN IF Repeats(rep)
              THEN UNION {RowLoad(gs, 0, j, samples, lbls, rep, b) :
                              gs \in shuffle(fs)}
              ELSE {[files |-> fs, i |-> ii, run |-> FALSE,
                     samples |-> Truncate(samples, j),
                     labels |-> Truncate(lbls, j), raised |-> "none"]}
         ELSE RowLoad(fs, ii, j, samples, lbls, rep, b)

\* lines 348-354
RowLoad(fs, ii, j, samples, lbls, rep, b) ==
    LET raises(e) == {[files |-> fs, i |-> ii, run |-> TRUE,
                       samples |-> samples, labels |-> lbls, raised |-> e]}
    IN  IF ii >= Len(fs) THEN raises("IndexError")
        ELSE LET f == fs[ii + 1]
                 label == transform_labels(
                              [kind |-> "scalar", value |-> file_labels[f]],
                              RowTransDict)
                 normed == norm_function(normalisation, file_samples[f])
             IN  IF ~Loads(f) THEN raises("LoadError")
                 ELSE IF label.kind = "error" THEN raises(label.raised)
                 ELSE IF normed.kind = "error" THEN raises(normed.raised)
                 ELSE RowLoop(fs, Advance(ii), j + 1,
                          [samples EXCEPT ![j + 1] =
                              [file |-> f, value |-> SampleRow(normed)]],
                          [lbls EXCEPT ![j + 1] =
                              [file |-> f, value |-> LabelRow(label.value)]],
                          rep, b)

\* next() on the generator
RequestRows ==
    /\ requests < MaxRowRequests
    /\ gen_state # "closed"
    /\ requests' = requests + 1
    /\ IF gen_state = "suspended" /\ ~run
       THEN /\ gen_state' = "closed"
            /\ outcome' = "StopIteration"
            /\ UNCHANGED <<files, i, run, batches>>
       ELSE \E f0 \in IF gen_state = "created"
                      THEN InitialFiles(file_list, shuffle_and_repeat)
                      ELSE {files} :
            \E o \in RowLoop(f0, i, 0, ZeroRows(batch_size),
                             ZeroRows(batch_size), shuffle_and_repeat,
                             batch_size) :
               /\ files' = o.files
               /\ i' = o.i
               /\ run' = o.run
               /\ IF o.raised = "none"
                  THEN /\ gen_state' = "suspended"
                       /\ outcome' = "batch"
                       /\ batches' = Append(batches, [samples |-> o.samples,
                                                      labels |-> o.labels])
                  ELSE /\ gen_state' = "closed"
                       /\ outcome' = o.raised
                       /\ UNCHANGED batches
    /\ UNCHANGED <<file_list, batch_size, shuffle_and_repeat, bad_files>>
    /\ UNCHANGED <<labelVars, prepVars, mixVars, gridVars, nameVars, callVars,
                   normVars, pairVars, rowVars>>

RowInit ==
    /\ \E n \in RowFileCounts :
          /\ file_list = [k \in 1..n |-> k]
          /\ file_labels \in [1..n -> RowLabelIds]
          /\ file_samples \in [1..n -> RowSamples]
    /\ categorical \in BOOLEAN
    /\ normalisation \in {0, 1, 2}
    /\ batch_size \in RowBatchSizes
    /\ shuffle_and_repeat \in BOOLEAN
    /\ files = file_list
    /\ i = 0
    /\ run = TRUE
    /\ gen_state = "created"
    /\ outcome = "none"
    /\ batches = <<>>
    /\ requests = 0
    /\ bad_files = {}
    /\ sample = <<>>
    /\ normalised = [kind |-> "unset"]
    /\ BaselineUnused
    /\ LabelUnused /\ PrepUnused /\ MixUnused
    /\ GridUnused /\ NameUnused /\ CallUnused /\ PairUnused

RowNext == RequestRows

SpecRows == RowInit /\ [][RowNext]_vars

\* the files of the rows of all batches, in the order they were yielded
RowFileStream ==
    Concat([k \in 1..Len(batches) |->
               [r \in 1..Len(batches[k].samples) |-> batches[k].samples[r].file]])

\* the contiguous index of the label of file f: the number of smaller
\* label IDs among the files
RemappedLabel(f) ==
    Cardinality({l \in Range(file_labels) : l < file_labels[f]})

\* the sample of file f has no positive entry
EmptySample(f) == \A k \in 1..Len(file_samples[f]) : file_samples[f][k] <= 0

\* C25: in every yielded batch, in both modes, samples and labels have the
\* same number r <= batch_size of rows and row j of both was filled from the
\* same file; a file whose sample is empty still fills its row (no file of
\* the pass is skipped); with categorical labels a label row has
\* num_classes entries, exactly one of them 1, at the contiguous index of the
\* file's remapped label.
C25_BatchRowsAgree ==
    /\ \A k \in 1..Len(batches) :
          LET s == batches[k].samples
              l == batches[k].labels
          IN  /\ Len(s) = Len(l)
              /\ Len(s) <= batch_size
              /\ \A j \in 1..Len(s) :
                    /\ s[j].file \in Range(file_list)
                    /\ l[j].file = s[j].file
                    /\ (EmptySample(s[j].file) /\ normalisation \in {1, 2})
                           => s[j].value = "nan"
                    /\ IF categorical
                       THEN /\ Len(l[j].value) = RowNumClasses
                            /\ \A c \in 1..RowNumClasses :
                                  l[j].value[c] =
                                      IF c - 1 = RemappedLabel(s[j].file)
                                      THEN 1 ELSE 0
                       ELSE l[j].value = RemappedLabel(s[j].file)
    /\ ~shuffle_and_repeat => IsPrefix(RowFileStream, file_list)
    /\ shuffle_and_repeat =>
          \A p \in 0..Len(RowFileStream) :
              (p + 1) * Len(file_list) <= Len(RowFileStream) =>
                  {RowFileStream[p * Len(file_list) + r] :
                      r \in 1..Len(file_list)} = Range(file_list)

\* a batch with an empty sample in front of a good one, two classes,
\* categorical labels, single pass
C25_Witness ==
    /\ Len(batches) >= 1
    /\ ~shuffle_and_repeat
    /\ categorical
    /\ normalisation = 2
    /\ file_labels = <<2, 0>>
    /\ EmptySample(1) /\ ~EmptySample(2)
    /\ Len(batches[1].samples) = 2
    /\ batches[1].labels[1].value = <<0, 1>>

\* the same in repeating mode, the batch running over the end of a pass
C25_WitnessRepeating ==
    /\ Len(batches) >= 2
    /\ shuffle_and_repeat
    /\ batch_size = 3
    /\ Len(file_list) = 2
    /\ EmptySample(1) /\ ~EmptySample(2)
    /\ normalisation = 1

\* ---------------------------------------------------------------------
\* get_64shot_transition_matrix over shot numbers inside and outside 1..64
\* ---------------------------------------------------------------------
MaxShot == 66
MaxShotFiles == 2

ShotNames ==
    {<<1, 0, 0, 1, [stem |-> s, ext |-> ".npy"]>> : s \in 0..MaxShot}

ShotInit ==
    /\ test_filepaths \in SeqsUpTo(ShotNames, MaxShotFiles)
    /\ transition_matrix = [kind |-> "none"]
    /\ HeatUnused
    /\ GenUnused /\ LabelUnused /\ PrepUnused /\ RowUnused /\ MixUnused
    /\ NameUnused /\ CallUnused /\ NormUnused /\ PairUnused

ShotNext == GetTransitionMatrix

SpecShots == ShotInit /\ [][ShotNext]_vars

\* C26: a file's row and column both lie in 0..7, a cell of the 8x8 grid
\* of its measure point, exactly when its 1-based shot index s lies in
\* 1..64; s = 0 gives row -1 and s >= 65 gives a row >= 8.
C26_CellInsideGridIffShotInRange ==
    transition_matrix.kind # "none" =>
        /\ transition_matrix.kind = "matrix"
        /\ \A k \in 1..Len(test_filepaths) :
              LET s == test_filepaths[k][NameTokens].stem
                  row == transition_matrix.value[k][2]
                  col == transition_matrix.value[k][3]
              IN  /\ (row \in 0..7 /\ col \in 0..7) <=> s \in 1..64
                  /\ s = 0 => row = -1
                  /\ s >= 65 => row >= 8

\* shot 0 and shot 65 in one list
C26_Witness ==
    /\ transition_matrix.kind = "matrix"
    /\ Len(test_filepaths) = 2
    /\ test_filepaths[1][NameTokens].stem = 0
    /\ test_filepaths[2][NameTokens].stem = 65
    /\ transition_matrix.value = <<<<0, -1, 7>>, <<0, 8, 0>>>>

\* ---------------------------------------------------------------------
\* compute_accuracy_heatmaps (utils.py 266-283), the array it fills before
\* plotting: d['heatmap_tm'] is the transition matrix of the test files,
\* target_preds holds one result per test file.
\* ---------------------------------------------------------------------
MaxHeatFiles == 3

HeatShots == {0, 1, 64, 65}
HeatNames ==
    {<<1, 0, 0, p, [stem |-> s, ext |-> ".npy"]>> :
        p \in {1, 2}, s \in HeatShots}
HeatResults == {1, 2}

\* an index into an axis of the given size, as numpy resolves it: a
\* negative index counts from the end, -1 stands for IndexError
AxisIndex(idx, size) ==
    IF idx >= 0 /\ idx < size THEN idx
    ELSE IF idx < 0 /\ idx >= -size THEN idx + size
    ELSE -1

\* line 278: np.zeros((np.max(d['heatmap_tm'], axis=0)[0] + 1, 8, 8))
HeatmapPlanes(tm) == Max({tm[k][1] : k \in 1..Len(tm)}) + 1

HeatZeros(planes) ==
    [cell \in (0..(planes - 1)) \X (0..(GridSize - 1)) \X (0..(GridSize - 1))
        |-> 0]

\* lines 282-283, from sample k on
RECURSIVE Scatter(_, _, _, _, _)
Scatter(heat, planes, tm, preds, k) ==
    IF k > Len(preds) THEN [kind |-> "heatmap", planes |-> planes,
                            value |-> heat]
    ELSE IF k > Len(tm) THEN [kind |-> "error", raised |-> "IndexError"]
    ELSE LET mp == AxisIndex(tm[k][1], planes)
             row == AxisIndex(tm[k][2], GridSize)
             col == AxisIndex(tm[k][3], GridSize)
         IN  IF mp = -1 \/ row = -1 \/ col = -1
             THEN [kind |-> "error", raised |-> "IndexError"]
             ELSE Scatter([heat EXCEPT ![<<mp, row, col>>] = preds[k]],
                          planes, tm, preds, k + 1)

\* lines 277-283
compute_accuracy_heatmaps(tm, preds) ==
    IF Len(tm) = 0 THEN [kind |-> "error", raised |-> "ValueError"]
    ELSE Scatter(HeatZeros(HeatmapPlanes(tm)), HeatmapPlanes(tm), tm, preds, 1)

ComputeAccuracyHeatmaps ==
    /\ transition_matrix.kind = "matrix"
    /\ acc_heatmap.kind = "none"
    /\ acc_heatmap' = compute_accuracy_heatmaps(transition_matrix.value,
                                                target_preds)
    /\ UNCHANGED <<genVars, labelVars, prepVars, rowVars, mixVars,
                   test_filepaths, transition_matrix, target_preds,
                   nameVars, callVars, normVars, pairVars>>

HeatInit ==
    /\ test_filepaths \in SeqsUpTo(HeatNames, MaxHeatFiles)
    /\ target_preds \in [1..Len(test_filepaths) -> HeatResults]
    /\ transition_matrix = [kind |-> "none"]
    /\ acc_heatmap = [kind |-> "none"]
    /\ GenUnused /\ LabelUnused /\ PrepUnused /\ RowUnused /\ MixUnused
    /\ NameUnused /\ CallUnused /\ NormUnused /\ PairUnused

HeatNext == GetTransitionMatrix \/ ComputeAccuracyHeatmaps

SpecHeat == HeatInit /\ [][HeatNext]_vars

\* the samples whose matrix row is the cell
Addressing(cell) ==
    {k \in 1..Len(test_filepaths) : transition_matrix.value[k] = cell}

\* C27: compute_accuracy_heatmaps builds an array of (largest measure-point
\* index + 1) x 8 x 8 zeros and writes the result of sample k to the cell
\* given by row k of the transition matrix: a cell that no matrix row
\* addresses stays zero, a cell that exactly one row addresses holds that
\* sample's result.
C27_HeatmapScattersResults ==
    (acc_heatmap.kind # "none" /\ test_filepaths # <<>>) =>
        /\ acc_heatmap.kind = "heatmap"
        /\ \A k \in 1..Len(test_filepaths) :
              transition_matrix.value[k][1] < acc_heatmap.planes
        /\ \E k \in 1..Len(test_filepaths) :
              transition_matrix.value[k][1] + 1 = acc_heatmap.planes
        /\ \A cell \in DOMAIN acc_heatmap.value :
              /\ Addressing(cell) = {} => acc_heatmap.value[cell] = 0
              /\ \A k \in Addressing(cell) :
                    Addressing(cell) = {k} =>
                        acc_heatmap.value[cell] = target_preds[k]

\* ---------------------------------------------------------------------
\* prepare_dataset (lines 405-410) and prepare_mixture_dataset (lines
\* 515-517) called on the same handheld training list, as the scripts do
\* with the handheld data set: the class count, the mapping and the class
\* weights of the two descriptors.
\* ---------------------------------------------------------------------
ClassTests == {<<>>, <<0>>}

\* the handheld training list holds at least one file; batch_size plays no
\* part in lines 405-410 and 515-517
ClassInit ==
    /\ train_labels \in SeqsUpTo(LabelIds, MaxLabels) \ {<<>>}
    /\ train_labels_hh = train_labels
    /\ train_labels_syn \in SeqsUpTo(MixLabelIds, MaxMixLabels)
    /\ mixture_pct \in 0..MaxPctSteps
    /\ test_labels \in ClassTests
    /\ batch_size = MaxBatch
    /\ dataset = [kind |-> "none"]
    /\ mixture = [kind |-> "none"]
    /\ GenIdle /\ LabelUnused /\ MoreUnused

ClassNext == PrepareDataset \/ PrepareMixtureDataset

SpecClasses == ClassInit /\ [][ClassNext]_vars

\* the original label of a file of the mixed training list
MixedLabel(f) ==
    IF f[1] = "hh" THEN train_labels_hh[f[2]] ELSE train_labels_syn[f[2]]

MixedLabels ==
    [k \in 1..Len(mixture.train_files) |-> MixedLabel(mixture.train_files[k])]

\* a descriptor whose training split has the original labels orig: one class
\* per distinct label, a sample in every class, a finite weight for each
EveryClassPopulated(d, orig) ==
    /\ d.num_classes = Cardinality(Range(orig))
    /\ \A c \in 0..(d.num_classes - 1) :
          /\ \E k \in 1..Len(d.train_labels) : d.train_labels[k] = c
          /\ c \in DOMAIN d.class_weights
          /\ d.class_weights[c].den > 0

\* C28: in every descriptor returned by prepare_dataset or
\* prepare_mixture_dataset for a non-empty training split, num_classes is
\* the number of distinct training label IDs and each class index
\* 0..num_classes-1 has at least one training sample, so the class-weight
\* computation never divides by zero (and never fails).
C28_EveryClassHasTrainingSamples ==
    /\ dataset.kind = "descriptor" =>
          /\ Len(dataset.train_labels) = Len(train_labels)
          /\ EveryClassPopulated(dataset, train_labels)
    /\ dataset.kind = "error" => dataset.raised = "KeyError"
    /\ mixture.kind = "descriptor" =>
          /\ Len(mixture.train_labels) = Len(mixture.train_files)
          /\ EveryClassPopulated(mixture, MixedLabels)
    /\ mixture.kind = "error" => mixture.raised = "KeyError"

\* both calls returned a descriptor with two classes whose label IDs leave
\* a gap; the mixture appended a synthetic file
C28_Witness ==
    /\ train_labels = <<0, 2, 2>>
    /\ dataset.kind = "descriptor"
    /\ dataset.num_classes = 2
    /\ dataset.class_weights[1] = [num |-> 3, den |-> 4]
    /\ mixture.kind = "descriptor"
    /\ mixture.num_classes = 2
    /\ Len(mixture.train_files) > Len(train_labels_hh)

\* ---------------------------------------------------------------------
\* __data_generator (lines 328-355) in repeating mode: how often each file
\* of the list has been emitted, at every point of the row stream.
\* ---------------------------------------------------------------------
\* the first m rows of the stream
Emitted(m) == SubSeq(Concat(batches), 1, m)

\* C29: repeating mode: after any number of rows emitted (at every point of
\* the row stream, across all reshuffles), the numbers of times any two
\* files of the list have been emitted differ by at most 1.
C29_EmissionCountsBalanced ==
    shuffle_and_repeat =>
        \A m \in 0..Len(Concat(batches)) :
            \A f, g \in Range(file_list) :
                Count(Emitted(m), f) <= Count(Emitted(m), g) + 1

\* a batch that crossed a reshuffle: four rows from three files, the fourth
\* of them the second emission of its file
C29_Witness ==
    /\ shuffle_and_repeat
    /\ NumFiles = 3
    /\ batch_size = 2
    /\ Len(batches) = 2
    /\ Count(Concat(batches), batches[2][2]) = 2
    /\ \A f \in Range(file_list) : Count(Concat(batches), f) >= 1

====
